---- MODULE Spec2Model ----
(***************************************************************************)
(* Advanced RAG-Tool Fusion workflow: rewrite -> decompose -> one branch   *)
(* per intent (expand, retrieve, rerank) -> join -> combine.               *)
(* The Intent-Level Reranker and the Cross-Intent Combiner are modelled    *)
(* attempt by attempt, every Generation Port call being one step.          *)
(* Spec follows the whole workflow with the branch stages before the       *)
(* rerank taken as single steps; SpecBranch follows two sibling branches   *)
(* call by call (two-pass expansion, retrieval tasks, step barrier);       *)
(* SpecRetriever follows the Tool Retriever over an index on its own;      *)
(* SpecIndexer follows the calls made on one FAISSVectorStoreIndexer;      *)
(* SpecPolicy applies the Combiner's tie-break policy to given shortlists; *)
(* SpecFair is the workflow with every enabled step eventually taken;      *)
(* SpecCalls runs generate and agenerate of the Reranker and the Combiner  *)
(* side by side on the same Generation Port outcomes.                      *)
(***************************************************************************)
EXTENDS Naturals, Sequences, FiniteSets

\* ---------------------------------------------------------------- bounds
\* largest number of intents the decomposer returns
MaxIntents == 2
\* longest list of paraphrases the Query Expander's extraction pass answers
MaxParaphrases == 2

\* tool identifiers the Generation Port may name
Tools == {"get_present_value", "get_internal_rate_of_return"}

\* largest configured individual_top_k / final_top_k explored: a list of more
\* distinct names than there are tools cannot be answered
MaxK == Cardinality(Tools)

VARIABLES
    pc,                     \* position of the main graph
    error,                  \* which stage raised out of the run ("none" if none)
    individual_top_k,       \* configuration of the Intent-Level Reranker
    final_top_k,            \* configuration of the Cross-Intent Combiner
    rewritten_query,        \* ToolshedState.rewritten_query
    decomposed_queries,     \* ToolshedState.decomposed_queries
    br,                     \* the running process_decomposed_query branches
    decomposed_query_dicts, \* ToolshedState.decomposed_query_dicts
    comb,                   \* the running RerankerDecomposedQueries.generate call
    list_of_intents,        \* arguments of the Combiner call
    list_of_list_of_tools,
    final_top_k_tools,      \* ToolshedState.final_top_k_tools
    has_final,              \* whether final_top_k_tools has been written
    reranker_returns,       \* what each branch's Reranker call returned
    combine_runs,           \* executions of the rerank_decomposed_queries node
    raised,                 \* the exception that left the run (NoException if none)
    gen_port,               \* Generation Port calls of the rewriter and decomposer
    sub,                    \* the branches' subgraph state, step by step
    index,                  \* FAISSVectorStoreIndexer.index
    history,                \* the Tool Retriever calls made so far
    awaited                 \* a generate and an agenerate call given the same answers

vars == <<pc, error, individual_top_k, final_top_k, rewritten_query,
          decomposed_queries, br, decomposed_query_dicts, comb, list_of_intents,
          list_of_list_of_tools, final_top_k_tools, has_final, reranker_returns,
          combine_runs, raised, gen_port, sub, index, history, awaited>>

\* ------------------------------------------------------- port responses
RECURSIVE SeqsUpTo(_, _)
SeqsUpTo(S, n) ==
    IF n = 0 THEN {<<>>}
    ELSE LET shorter == SeqsUpTo(S, n - 1)
         IN  shorter \cup {Append(s, x) : s \in {t \in shorter : Len(t) = n - 1}, x \in S}


Raised == [kind |-> "exc", tool_names |-> <<>>]
Returned(names) == [kind |-> "ok", tool_names |-> names]
NoResult == [kind |-> "none", tool_names |-> <<>>]

\* what one structured Generation Port call asked for k names may answer, or
\* raise: any list of names up to one longer than k
PortResponses(k) == {Raised} \cup {Returned(l) : l \in SeqsUpTo(Tools, k + 1)}

\* the answers to the Reranker explored inside a run of the workflow: generate
\* reads nothing but the length of a list of another length, which is never
\* returned, so those explored repeat one name
RerankerResponses(k) ==
    {resp \in PortResponses(k) :
        \/ resp.kind = "exc"
        \/ Len(resp.tool_names) = k
        \/ \A j \in DOMAIN resp.tool_names : resp.tool_names[j] = resp.tool_names[1]}

\* len(list(set(names)))
UniqueCount(names) == Cardinality({names[i] : i \in DOMAIN names})
NoDuplicates(names) == UniqueCount(names) = Len(names)

\* ------------------------------------------------ Intent-Level Reranker
reranker_max_attempts == 3

\* the top_k the workflow constructs the Reranker with
reranker_top_k == individual_top_k

\* FinalToolNames: min_length = max_length = top_k
RerankerFinalToolNames(names) ==
    Len(names) >= reranker_top_k /\ Len(names) <= reranker_top_k

\* result = self.structured_llm.invoke(messages): what the port answers, or
\* the exception it raises.  generate does not validate the answer against
\* FinalToolNames: a list of another length is bound to result and fails the
\* test of the loop; a port that enforces the schema answers such a list by
\* raising, which is the response Raised
RerankerStructuredInvoke(resp) == resp

\* messages = self._get_finalized_list_thoughts_messages(...), composed from
\* the arguments of the call before the loop; b is the call's state at an attempt
\* (variant: the attempt number goes into the prompt)
RerankerMessages_numbered(b) == <<b.decomposed_query, b.attempts>>
RerankerMessages(b) == <<b.decomposed_query>>

\* if len(result.tool_names) == self.top_k: break
\* (variant: the loop does not break)
RerankerAttemptSucceeds_never(result) == FALSE
RerankerAttemptSucceeds(result) == Len(result.tool_names) = reranker_top_k

\* except Exception as e: pass
\* (variant: the exception is not caught)
RerankerSwallows_not == FALSE
RerankerSwallows == TRUE

\* the return after the loop
RerankerReturn(result) ==
    IF result.kind = "ok" /\ Len(result.tool_names) = reranker_top_k
    THEN result.tool_names ELSE <<>>

\* --------------------------------------------------- Cross-Intent Combiner
\* (variant: one attempt too many)
combiner_max_attempts_more == 3 + 1
combiner_max_attempts == 3

\* FinalToolNames: min_length = max_length = final_top_k, the schema handed
\* to the port by llm.with_structured_output
CombinerFinalToolNames(names) ==
    Len(names) >= final_top_k /\ Len(names) <= final_top_k

\* result = self.structured_llm.invoke(structured_messages): what the port
\* answers, or the exception it raises.  generate does not validate the
\* answer against FinalToolNames itself; a port that enforces the schema
\* answers a list of another length by raising, which is the response Raised
CombinerStructuredInvoke(resp) == resp

\* if len(list(set(result.tool_names))) == self.final_top_k: break
CombinerAttemptSucceeds(result) == UniqueCount(result.tool_names) = final_top_k

\* except Exception as e: continue
\* (variant: the exception is not caught)
CombinerSwallows_not == FALSE
CombinerSwallows == TRUE

\* the return after the loop
\* (variants: the return gives whatever result holds; the return tests the
\* length only; the fallback is a shortlist)
CombinerReturn_kept_result(result) ==
    IF result.kind = "ok" THEN result.tool_names ELSE <<>>
CombinerReturn_by_length(result) ==
    IF result.kind = "ok" /\ Len(result.tool_names) = final_top_k
    THEN result.tool_names ELSE <<>>
CombinerReturn_first_shortlist(result) ==
    IF result.kind = "ok" /\ UniqueCount(result.tool_names) = final_top_k
    THEN result.tool_names ELSE list_of_list_of_tools[1]
CombinerReturn(result) ==
    IF result.kind = "ok" /\ UniqueCount(result.tool_names) = final_top_k
    THEN result.tool_names ELSE <<>>

IdleCombiner ==
    [phase |-> "idle", attempts |-> 0, free_calls |-> 0, struct_calls |-> 0,
     fails |-> 0, result |-> NoResult, ret |-> <<>>,
     ai_response_content |-> 0, structured_messages |-> 0, extract_attempt |-> 0]

\* the reasoning text of a free-form call is named by the attempt that made it
CombinerReasoning(attempt) == attempt

\* _get_structured_prompt_after_first_response(ai_response=ai_response_content)
\* (variant: the reasoning of the first attempt is kept for every extraction)
CombinerStructuredMessages_first(c) == CombinerReasoning(1)
CombinerStructuredMessages(c) == c.ai_response_content

\* ------------------------------------------- exceptions and plain results
Exc(type, msg) == [kind |-> "exc", type |-> type, msg |-> msg, value |-> <<>>]
Ok(value) == [kind |-> "ok", type |-> "", msg |-> <<>>, value |-> value]
NoException == [kind |-> "none", type |-> "", msg |-> <<>>, value |-> <<>>]

\* what a failing Generation Port call raises
GenerationError == Exc("GenerationError", <<"generation failed">>)

\* one call of generate or agenerate: attempts, result, the port calls made,
\* and how it ended
NewRun ==
    [attempts |-> 0, result |-> NoResult, calls |-> <<>>, done |-> FALSE,
     ret |-> <<>>, raised |-> NoException, phase |-> "loop"]

\* no direct call is being followed; script holds the outcomes the port has
\* given so far, the k-th to the k-th call of either run
NoRuns ==
    [component |-> "none", script |-> <<>>, sync |-> NewRun, async |-> NewRun]

\* --------------------------------------------- rewriter and decomposer
\* QueryRewritingModule.generate: one structured call, no try
\* (variant: a failure falls back to the original query)
RewriterGenerate_fallback(resp) ==
    IF resp.kind = "exc" THEN Ok(<<"original">>) ELSE Ok(resp.value)
RewriterGenerate(resp) ==
    IF resp.kind = "exc" THEN resp ELSE Ok(resp.value)

\* QueryDecompositionModule.generate: one structured call, no try
DecomposerGenerate(resp) ==
    IF resp.kind = "exc" THEN resp ELSE Ok(resp.value)

NoGenCalls ==
    [rewriter |-> 0, rewriter_raised |-> FALSE,
     decomposer |-> 0, decomposer_raised |-> FALSE, decomposer_query |-> ""]

\* ------------------------------------------ vector store and Tool Retriever
\* self.index = None; embedding_model: __init__ assigned self.embedding_model
NoIndex == [ready |-> FALSE, docs |-> {}, embedding_model |-> TRUE]

\* self.index = FAISS.from_documents(documents, self.embedder)
index_documents(documents) ==
    [ready |-> TRUE, docs |-> documents, embedding_model |-> TRUE]

\* a retrieval query: the text of intent dq (v = 0) or its paraphrase v
AsQuery(dq) == [of |-> dq, v |-> 0]
Paraphrase(dq, v) == [of |-> dq, v |-> v]

\* the catalogue by decreasing similarity to the query
Ranking(query) ==
    IF (query.of + query.v) % 2 = 0
    THEN <<"get_present_value", "get_internal_rate_of_return">>
    ELSE <<"get_internal_rate_of_return", "get_present_value">>

\* self.index.similarity_search(query, k=k): the k nearest indexed documents.
\* FAISS is not part of the repository; its search is taken as a function of
\* the index, the query and k
similarity_search(idx, query, k) ==
    LET Indexed(d) == d \in idx.docs
        found == SelectSeq(Ranking(query), Indexed)
    IN  SubSeq(found, 1, IF k < Len(found) THEN k ELSE Len(found))

IndexNotReady ==
    Exc("ValueError",
        <<"Index has not been created yet. Call 'index_documents' or 'load_index' first.">>)
SearchFailure == Exc("RuntimeError", <<"similarity search failed">>)

\* FAISSVectorStoreIndexer.query; backend_ok: similarity_search does not raise
\* (variant: self.index is used without the test for None)
indexer_query_unguarded(idx, query, k, backend_ok) ==
    IF idx.ready
    THEN IF backend_ok THEN Ok(similarity_search(idx, query, k)) ELSE SearchFailure
    ELSE Exc("AttributeError", <<"'NoneType' object has no attribute 'similarity_search'">>)
indexer_query(idx, query, k, backend_ok) ==
    IF idx.ready
    THEN IF backend_ok THEN Ok(similarity_search(idx, query, k)) ELSE SearchFailure
    ELSE IndexNotReady

\* query reads self.index and assigns nothing
index_after_query(idx, out) == idx

\* InitialToolRetrievalModule.generate applied to the outcome of the query
\* (variants: the original message is dropped; a failure becomes no candidates)
RetrieverGenerate_bare(out) ==
    IF out.kind = "exc"
    THEN Exc("ValueError", <<"Error retrieving tools: ">>)
    ELSE out
RetrieverGenerate_empty_on_error(out) ==
    IF out.kind = "exc" THEN Ok(<<>>) ELSE out
RetrieverGenerate(out) ==
    IF out.kind = "exc"
    THEN Exc("ValueError", <<"Error retrieving tools: ">> \o out.msg)
    ELSE out

\* ------------------------------------------------------------ the graph
\* one Send("process_decomposed_query", {"decomposed_query": dq}) per intent
\* (variant: every branch is sent the first intent)
continue_to_process_decomposed_queries_first(dqs) ==
    [i \in 1..Len(dqs) |->
        [decomposed_query |-> dqs[1], st |-> "spawned", attempts |-> 0, calls |-> 0,
         fails |-> 0, result |-> NoResult, top_tools |-> <<>>, update |-> <<>>,
         prompts |-> {}, tasks |-> {}]]
continue_to_process_decomposed_queries(dqs) ==
    [i \in 1..Len(dqs) |->
        [decomposed_query |-> dqs[i], st |-> "spawned", attempts |-> 0, calls |-> 0,
         fails |-> 0, result |-> NoResult, top_tools |-> <<>>, update |-> <<>>,
         prompts |-> {}, tasks |-> {}]]

\* the dict rerank_expanded_queries appends to decomposed_query_dicts
\* (variants: the shortlist cut to its first name; the shortlist wrapped in a list)
IntentResult_truncated(dq, top_tools) ==
    [decomposed_query |-> dq,
     final_top_k_tools |-> SubSeq(top_tools, 1, IF top_tools = <<>> THEN 0 ELSE 1)]
IntentResult_nested(dq, top_tools) ==
    [decomposed_query |-> dq, final_top_k_tools |-> <<top_tools>>]
IntentResult(dq, top_tools) ==
    [decomposed_query |-> dq, final_top_k_tools |-> top_tools]

\* the orders in which the updates of n parallel tasks can be applied to an
\* operator.add channel: the state declares the reducer and nothing in the
\* repository fixes the order in which the graph runtime applies the updates
Orders(n) == {p \in [1..n -> 1..n] : \A a, b \in 1..n : p[a] = p[b] => a = b}

\* operator.add over the branches' updates, applied in the order given
RECURSIVE MergeUpdates(_, _, _)
MergeUpdates(b, order, n) ==
    IF n = 0 THEN <<>> ELSE MergeUpdates(b, order, n - 1) \o b[order[n]].update

\* the branches whose completion lets the combine step start
\* (variants: the join waits for every shortlist to be non-empty; the first
\* finished branch releases the join)
JoinReady_all_succeeded ==
    \A i \in DOMAIN br : br[i].st = "reranked" /\ br[i].top_tools # <<>>
JoinReady_any == \E i \in DOMAIN br : br[i].st = "reranked"
JoinReady == \A i \in DOMAIN br : br[i].st = "reranked"

\* decomposed_queries_list = [d["decomposed_query"] for d in decomposed_query_dicts]
\* (variant: the intents are read from state["decomposed_queries"])
DecomposedQueriesList_from_state(dicts) == decomposed_queries
DecomposedQueriesList(dicts) ==
    [i \in DOMAIN dicts |-> dicts[i].decomposed_query]

\* decomposed_queries_final_tools_list =
\*     [d["final_top_k_tools"] for d in decomposed_query_dicts]
\* (variants: empty shortlists are left out; the shortlists are taken in the
\* opposite order)
DecomposedQueriesFinalToolsList_nonempty(dicts) ==
    LET kept == SelectSeq(dicts, LAMBDA d : d.final_top_k_tools # <<>>)
    IN  [i \in DOMAIN kept |-> kept[i].final_top_k_tools]
DecomposedQueriesFinalToolsList_reversed(dicts) ==
    [i \in DOMAIN dicts |-> dicts[Len(dicts) + 1 - i].final_top_k_tools]
DecomposedQueriesFinalToolsList(dicts) ==
    [i \in DOMAIN dicts |-> dicts[i].final_top_k_tools]

\* if len(decomposed_queries_list) == 1
\* (variant: the shortcut tests for no intent)
SingleIntent_never(dqs) == Len(dqs) = 0
SingleIntent(dqs) == Len(dqs) = 1

\* an exception leaves the run: the stage that raised and what it raised
\* (variant: the branches end and the run goes on with what has been merged)
AbortWith_branches_only(kind, exc) ==
    /\ pc' = "joined"
    /\ error' = kind
    /\ raised' = exc
    /\ br' = <<>>
    /\ comb' = IdleCombiner
AbortWith(kind, exc) ==
    /\ pc' = "error"
    /\ error' = kind
    /\ raised' = exc
    /\ br' = <<>>
    /\ comb' = IdleCombiner

Abort(kind) ==
    /\ pc' = "error"
    /\ error' = kind
    /\ raised' = GenerationError
    /\ br' = <<>>
    /\ comb' = IdleCombiner

\* InitialToolRetrievalModule.__init__(self, toolshed_knowledge_base) called
\* with the given keyword arguments
RetrieverParameters == {"toolshed_knowledge_base"}
RetrieverConstruct(kwargs) ==
    IF ~(kwargs \subseteq RetrieverParameters)
    THEN Exc("TypeError", <<"__init__() got an unexpected keyword argument">>)
    ELSE IF kwargs # RetrieverParameters
    THEN Exc("TypeError", <<"__init__() missing 1 required positional argument">>)
    ELSE Ok(<<>>)

\* the keyword arguments the workflow module builds the Tool Retriever with:
\* embedder and toolshed_knowledge_base as the module is written, or the
\* knowledge base alone, which the class accepts and every run presupposes
RetrieverKwargs ==
    {{"embedder", "toolshed_knowledge_base"}, {"toolshed_knowledge_base"}}

\* the workflow module has been executed: building the Tool Retriever raised
\* and there is no graph to invoke (the k's are never assigned), or the
\* modules and the graph are built, the index being built or not
Init ==
    /\ \E kwargs \in RetrieverKwargs :
         LET built == RetrieverConstruct(kwargs)
         IN  IF built.kind = "ok"
             THEN /\ pc = "start"
                  /\ error = "none"
                  /\ raised = NoException
                  /\ individual_top_k \in 1..MaxK
                  /\ final_top_k \in 1..MaxK
                  /\ index \in {NoIndex, index_documents(Tools)}
             ELSE /\ pc = "error"
                  /\ error = "construction"
                  /\ raised = built
                  /\ individual_top_k = 0
                  /\ final_top_k = 0
                  /\ index = NoIndex
    /\ rewritten_query = ""
    /\ decomposed_queries = <<>>
    /\ br = <<>>
    /\ decomposed_query_dicts = <<>>
    /\ comb = IdleCombiner
    /\ list_of_intents = <<>>
    /\ list_of_list_of_tools = <<>>
    /\ final_top_k_tools = <<>>
    /\ has_final = FALSE
    /\ reranker_returns = <<>>
    /\ combine_runs = 0
    /\ gen_port = NoGenCalls
    /\ sub = <<>>
    /\ history = <<>>
    /\ awaited = NoRuns

\* rewrite_user_query: one Generation Port call, failures propagate
rewrite_user_query ==
    /\ pc = "start"
    /\ \E resp \in {GenerationError, Ok(<<"rewritten">>)} :
         LET out == RewriterGenerate(resp)
         IN  /\ gen_port' = [gen_port EXCEPT !.rewriter = @ + 1,
                                             !.rewriter_raised = (resp.kind = "exc")]
             /\ IF out.kind = "ok"
                THEN /\ pc' = "rewritten"
                     /\ rewritten_query' = out.value[1]
                     /\ UNCHANGED <<error, raised, br, comb>>
                ELSE /\ AbortWith("rewriter", out)
                     /\ UNCHANGED rewritten_query
    /\ UNCHANGED <<individual_top_k, final_top_k, decomposed_queries,
                   decomposed_query_dicts, list_of_intents, list_of_list_of_tools,
                   final_top_k_tools, has_final, reranker_returns, combine_runs,
                   sub, index, history, awaited>>

\* query_decomposition_module.generate(query=state["rewritten_query"])
\* (variant: the decomposer is given the query the user wrote)
DecomposerQuery_user_query == "user_query"
DecomposerQuery == rewritten_query

\* decompose_user_query, then the conditional edge that spawns the branches
decompose_user_query ==
    /\ pc = "rewritten"
    /\ \E resp \in {GenerationError} \cup {Ok([i \in 1..n |-> i]) : n \in 0..MaxIntents} :
         LET out == DecomposerGenerate(resp)
         IN  /\ gen_port' = [gen_port EXCEPT !.decomposer = @ + 1,
                                             !.decomposer_query = DecomposerQuery,
                                             !.decomposer_raised = (resp.kind = "exc")]
             /\ IF out.kind = "ok"
                THEN LET dqs == out.value
                     IN  /\ decomposed_queries' = dqs
                         /\ br' = continue_to_process_decomposed_queries(dqs)
                         /\ reranker_returns' = [i \in 1..Len(dqs) |-> NoResult]
                         /\ pc' = IF Len(dqs) = 0 THEN "halted" ELSE "branches"
                         /\ UNCHANGED <<error, raised, comb>>
                ELSE /\ AbortWith("decomposer", out)
                     /\ UNCHANGED <<decomposed_queries, reranker_returns>>
    /\ UNCHANGED <<individual_top_k, final_top_k, rewritten_query,
                   decomposed_query_dicts, list_of_intents, list_of_list_of_tools,
                   final_top_k_tools, has_final, combine_runs,
                   sub, index, history, awaited>>

\* the retrieval tasks of a branch: 0 is retrieve_tools_for_query, j is the
\* retrieve_tools_for_expanded_query task sent for the j-th paraphrase
RetrievalTasks(n) == 0..n

\* the text a retrieval task searches for
TaskQuery(dq, t) == IF t = 0 THEN AsQuery(dq) ELSE Paraphrase(dq, t)

\* expand_query, first pass of the Query Expander: self.llm.invoke(messages);
\* a failure propagates out of the branch
expand_query_first_pass(i) ==
    /\ pc = "branches"
    /\ br[i].st = "spawned"
    /\ \E ok \in BOOLEAN :
         IF ok
         THEN /\ br' = [br EXCEPT ![i].st = "free_done"]
              /\ UNCHANGED <<pc, error, raised, comb>>
         ELSE Abort("expander")
    /\ UNCHANGED <<individual_top_k, final_top_k, rewritten_query, decomposed_queries,
                   decomposed_query_dicts, list_of_intents, list_of_list_of_tools,
                   final_top_k_tools, has_final, reranker_returns, combine_runs,
                   gen_port, sub, index, history, awaited>>

\* expand_query, second pass: self.structured_llm.invoke(structured_message)
\* answers n paraphrases; the node returns and the edges send the intent's own
\* retrieval and one retrieval per paraphrase
expand_query(i) ==
    /\ pc = "branches"
    /\ br[i].st = "free_done"
    /\ \E ok \in BOOLEAN, n \in 0..MaxParaphrases :
         IF ok
         THEN /\ br' = [br EXCEPT ![i].st = "expanded",
                                  ![i].tasks = RetrievalTasks(n)]
              /\ UNCHANGED <<pc, error, raised, comb>>
         ELSE Abort("expander")
    /\ UNCHANGED <<individual_top_k, final_top_k, rewritten_query, decomposed_queries,
                   decomposed_query_dicts, list_of_intents, list_of_list_of_tools,
                   final_top_k_tools, has_final, reranker_returns, combine_runs,
                   gen_port, sub, index, history, awaited>>

\* retrieve_tools_for_query (t = 0) and retrieve_tools_for_expanded_query
\* (t > 0): one call of the Tool Retriever on the index; a failure propagates
\* out of the branch; the task that finishes last ends the step, after which
\* rerank_expanded_queries may run
retrieve_tools(i, t) ==
    /\ pc = "branches"
    /\ br[i].st = "expanded"
    /\ t \in br[i].tasks
    /\ \E backend_ok \in BOOLEAN :
         LET out == RetrieverGenerate(
                        indexer_query(index, TaskQuery(br[i].decomposed_query, t),
                                      individual_top_k, backend_ok))
             tasks == br[i].tasks \ {t}
         IN  IF out.kind = "ok"
             THEN /\ br' = [br EXCEPT
                             ![i].tasks = tasks,
                             ![i].st = IF tasks = {} THEN "retrieved" ELSE @]
                  /\ UNCHANGED <<pc, error, raised, comb>>
             ELSE AbortWith("retrieval", out)
    /\ UNCHANGED <<individual_top_k, final_top_k, rewritten_query, decomposed_queries,
                   decomposed_query_dicts, list_of_intents, list_of_list_of_tools,
                   final_top_k_tools, has_final, reranker_returns, combine_runs,
                   gen_port, sub, index, history, awaited>>

\* rerank_expanded_queries: one attempt of RerankerMultiQueryExpansionVariations
\* .generate; the attempt that ends the loop also returns and writes the update
rerank_expanded_queries(i) ==
    /\ pc = "branches"
    /\ br[i].st = "retrieved"
    /\ br[i].attempts < reranker_max_attempts
    /\ \E out \in {RerankerStructuredInvoke(resp) :
                      resp \in RerankerResponses(individual_top_k)} :
         LET attempts == br[i].attempts + 1
             result == IF out.kind = "ok" THEN out ELSE br[i].result
             success == out.kind = "ok" /\ RerankerAttemptSucceeds(out)
             failed == out.kind = "exc" \/ Len(out.tool_names) # individual_top_k
             finished == success \/ ~(attempts < reranker_max_attempts)
             top_tools == RerankerReturn(result)
         IN  IF out.kind = "exc" /\ ~RerankerSwallows
             THEN /\ Abort("reranker")
                  /\ UNCHANGED <<reranker_returns>>
             ELSE /\ reranker_returns' =
                        IF finished
                        THEN [reranker_returns EXCEPT ![i] = Returned(top_tools)]
                        ELSE reranker_returns
                  /\ br' = [br EXCEPT
                        ![i].attempts = attempts,
                        ![i].calls = @ + 1,
                        ![i].prompts = @ \cup {RerankerMessages(br[i])},
                        ![i].fails = IF failed THEN @ + 1 ELSE @,
                        ![i].result = result,
                        ![i].st = IF finished THEN "reranked" ELSE @,
                        ![i].top_tools = IF finished THEN top_tools ELSE @,
                        ![i].update =
                            IF finished
                            THEN <<IntentResult(br[i].decomposed_query, top_tools)>>
                            ELSE @]
                  /\ UNCHANGED <<pc, error, raised, comb>>
    /\ UNCHANGED <<individual_top_k, final_top_k, rewritten_query, decomposed_queries,
                   decomposed_query_dicts, list_of_intents, list_of_list_of_tools,
                   final_top_k_tools, has_final, combine_runs,
                   gen_port, sub, index, history, awaited>>

\* the edge process_decomposed_query -> rerank_decomposed_queries: the branches'
\* updates are merged into the parent state and the branch states are dropped
Join ==
    /\ pc = "branches"
    /\ JoinReady
    /\ \E order \in Orders(Len(br)) :
           decomposed_query_dicts' =
               decomposed_query_dicts \o MergeUpdates(br, order, Len(br))
    /\ br' = <<>>
    /\ pc' = "joined"
    /\ UNCHANGED <<error, raised, individual_top_k, final_top_k, rewritten_query,
                   decomposed_queries, comb, list_of_intents, list_of_list_of_tools,
                   final_top_k_tools, has_final, reranker_returns, combine_runs,
                   gen_port, sub, index, history, awaited>>

\* rerank_decomposed_queries up to the call of the Combiner
rerank_decomposed_queries ==
    /\ pc = "joined"
    /\ combine_runs' = combine_runs + 1
    /\ LET decomposed_queries_list == DecomposedQueriesList(decomposed_query_dicts)
       IN  IF SingleIntent(decomposed_queries_list)
           THEN /\ final_top_k_tools' = decomposed_query_dicts[1].final_top_k_tools
                /\ has_final' = TRUE
                /\ pc' = "done"
                /\ UNCHANGED <<comb, list_of_intents, list_of_list_of_tools>>
           ELSE /\ list_of_intents' = decomposed_queries_list
                /\ list_of_list_of_tools' =
                       DecomposedQueriesFinalToolsList(decomposed_query_dicts)
                /\ comb' = [IdleCombiner EXCEPT !.phase = "free"]
                /\ pc' = "combining"
                /\ UNCHANGED <<final_top_k_tools, has_final>>
    /\ UNCHANGED <<error, raised, individual_top_k, final_top_k, rewritten_query,
                   decomposed_queries, br, decomposed_query_dicts, reranker_returns,
                   gen_port, sub, index, history, awaited>>

\* the Combiner call returns and rerank_decomposed_queries writes the result
CombinerEnds(c) ==
    LET ret == CombinerReturn(c.result)
    IN  /\ comb' = [c EXCEPT !.phase = "returned", !.ret = ret]
        /\ final_top_k_tools' = ret
        /\ has_final' = TRUE
        /\ pc' = "done"
        /\ UNCHANGED <<error, raised>>

\* the attempt failed or was not a success: loop again or leave the loop
CombinerLoops(c) ==
    IF c.attempts < combiner_max_attempts
    THEN /\ comb' = [c EXCEPT !.phase = "free"]
         /\ UNCHANGED <<pc, error, raised, final_top_k_tools, has_final>>
    ELSE CombinerEnds(c)

\* first pass of an attempt: self.llm.invoke(messages)
CombinerFreeForm ==
    /\ pc = "combining"
    /\ comb.phase = "free"
    /\ comb.attempts < combiner_max_attempts
    /\ \E ok \in BOOLEAN :
         LET c == [comb EXCEPT !.attempts = @ + 1, !.free_calls = @ + 1]
         IN  IF ok
             THEN /\ comb' = [c EXCEPT !.phase = "extract",
                                       !.ai_response_content = CombinerReasoning(c.attempts)]
                  /\ UNCHANGED <<pc, error, raised, final_top_k_tools, has_final>>
             ELSE IF ~CombinerSwallows
                  THEN /\ Abort("combiner")
                       /\ UNCHANGED <<final_top_k_tools, has_final>>
                  ELSE CombinerLoops([c EXCEPT !.fails = @ + 1])
    /\ UNCHANGED <<individual_top_k, final_top_k, rewritten_query, decomposed_queries,
                   br, decomposed_query_dicts, list_of_intents, list_of_list_of_tools,
                   reranker_returns, combine_runs,
                   gen_port, sub, index, history, awaited>>

\* second pass of an attempt: self.structured_llm.invoke(structured_messages)
CombinerExtract ==
    /\ pc = "combining"
    /\ comb.phase = "extract"
    /\ \E resp \in PortResponses(final_top_k) :
         LET out == CombinerStructuredInvoke(resp)
             failed == out.kind = "exc" \/ UniqueCount(out.tool_names) # final_top_k
             c == [comb EXCEPT
                      !.struct_calls = @ + 1,
                      !.structured_messages = CombinerStructuredMessages(comb),
                      !.extract_attempt = comb.attempts,
                      !.fails = IF failed THEN @ + 1 ELSE @,
                      !.result = IF out.kind = "ok" THEN out ELSE @]
         IN  IF out.kind = "exc"
             THEN IF ~CombinerSwallows
                  THEN /\ Abort("combiner")
                       /\ UNCHANGED <<final_top_k_tools, has_final>>
                  ELSE CombinerLoops(c)
             ELSE IF CombinerAttemptSucceeds(out)
                  THEN CombinerEnds(c)
                  ELSE CombinerLoops(c)
    /\ UNCHANGED <<individual_top_k, final_top_k, rewritten_query, decomposed_queries,
                   br, decomposed_query_dicts, list_of_intents, list_of_list_of_tools,
                   reranker_returns, combine_runs,
                   gen_port, sub, index, history, awaited>>

Next ==
    \/ rewrite_user_query
    \/ decompose_user_query
    \/ \E i \in DOMAIN br : expand_query_first_pass(i)
    \/ \E i \in DOMAIN br : expand_query(i)
    \/ \E i \in DOMAIN br : \E t \in br[i].tasks : retrieve_tools(i, t)
    \/ \E i \in DOMAIN br : rerank_expanded_queries(i)
    \/ Join
    \/ rerank_decomposed_queries
    \/ CombinerFreeForm
    \/ CombinerExtract

Spec == Init /\ [][Next]_vars

\* the workflow with a Reranker that keeps one tool per intent, or the module
\* that failed to build (individual_top_k never assigned)
InitFair == Init /\ individual_top_k <= 1

\* every port call returns or raises in the end, and the graph runtime runs
\* every node that is ready: a step that can be taken is taken
SpecFair == InitFair /\ [][Next]_vars /\ WF_vars(Next)

\* ------------------------------------------- the Tool Retriever on its own
\* most calls followed in one history
MaxCalls == 3

\* the variables of the workflow proper
workflowVars ==
    <<pc, error, individual_top_k, final_top_k, rewritten_query, decomposed_queries,
      br, decomposed_query_dicts, comb, list_of_intents, list_of_list_of_tools,
      final_top_k_tools, has_final, reranker_returns, combine_runs, raised,
      gen_port, awaited>>

\* the states self.index can be in: None, or built from some documents
Indexes == {NoIndex} \cup {index_documents(D) : D \in (SUBSET Tools) \ {{}}}

\* queries put to the retriever: two texts the index ranks differently
RetrieverQueries == {AsQuery(1), Paraphrase(1, 1)}

\* a retriever over an index in any of its states, no workflow running
InitRetriever ==
    /\ pc = "start"
    /\ error = "none"
    /\ individual_top_k = 1
    /\ final_top_k = 1
    /\ rewritten_query = ""
    /\ decomposed_queries = <<>>
    /\ br = <<>>
    /\ decomposed_query_dicts = <<>>
    /\ comb = IdleCombiner
    /\ list_of_intents = <<>>
    /\ list_of_list_of_tools = <<>>
    /\ final_top_k_tools = <<>>
    /\ has_final = FALSE
    /\ reranker_returns = <<>>
    /\ combine_runs = 0
    /\ raised = NoException
    /\ gen_port = NoGenCalls
    /\ sub = <<>>
    /\ index \in Indexes
    /\ history = <<>>
    /\ awaited = NoRuns

\* index_documents / load_index: the index is replaced, a new history starts
BuildIndex ==
    /\ \E D \in (SUBSET Tools) \ {{}} :
         /\ index_documents(D) # index
         /\ index' = index_documents(D)
    /\ history' = <<>>
    /\ UNCHANGED <<workflowVars, sub>>

\* one call of InitialToolRetrievalModule.generate(query, top_k)
RetrieverCall ==
    /\ Len(history) < MaxCalls
    /\ \E query \in RetrieverQueries, top_k \in 1..MaxK, backend_ok \in BOOLEAN :
         LET out == indexer_query(index, query, top_k, backend_ok)
             result == RetrieverGenerate(out)
         IN  /\ history' = Append(history,
                    [query |-> query, top_k |-> top_k, port_calls |-> 1,
                     port |-> out, result |-> result])
             /\ index' = index_after_query(index, out)
    /\ UNCHANGED <<workflowVars, sub>>

NextRetriever == BuildIndex \/ RetrieverCall

SpecRetriever == InitRetriever /\ [][NextRetriever]_vars

\* ------------------------------------- the per-intent subgraph in detail
\* n_items the workflow configures the Query Expander with
n_items == 2

\* the distinct paraphrase texts the Generation Port may give for one intent
Variants == {1, 2}

\* the decomposition whose branches are followed
SiblingIntents == <<1, 2>>

\* the free-form reasoning the first pass returns for a query; none yet
AIMessage(query) == <<[reasoning_for |-> query]>>
NoMessage == <<>>

\* _get_structured_message_after_first_response(ai_message, user_question)
\* (variant: the first pass's output is left out of the context)
ExpanderStructuredMessage_bare(ai_message, user_question) ==
    [AI_response |-> NoMessage, user_question |-> user_question]
ExpanderStructuredMessage(ai_message, user_question) ==
    [AI_response |-> ai_message, user_question |-> user_question]
NoContext == [AI_response |-> NoMessage, user_question |-> 0]

\* what the extraction pass may answer for a query: ExpandedQueries declares
\* a List[str] of any length
ExpandedQueries(query) ==
    SeqsUpTo({Paraphrase(query, v) : v \in Variants}, MaxParaphrases)

\* return result.expanded_queries
\* (variant: the answer is filled up to n_items with the query itself)
ExpanderReturn_padded(query, answer) ==
    answer \o [j \in 1..(n_items - Len(answer)) |-> AsQuery(query)]
ExpanderReturn(query, answer) == answer

\* the state a subgraph run starts with: {"decomposed_query": dq}
DecomposedQueryState(dq) ==
    [decomposed_query |-> dq, stage |-> "start", free_calls |-> 0, struct_calls |-> 0,
     ai_message |-> NoMessage, context |-> NoContext, answer |-> <<>>,
     expanded_queries |-> <<>>, self_done |-> FALSE, self_write |-> <<>>,
     writes |-> <<>>, search_calls |-> 0,
     decomposed_query_tools |-> <<>>, expanded_query_dicts |-> <<>>]

\* one Send("retrieve_tools_for_each_expanded_query", {"expanded_query": eq})
\* per paraphrase
continue_to_retrieve_tools_for_each_expanded_queries_capped(expanded_queries) ==
    [j \in 1..(IF Len(expanded_queries) < 1 THEN Len(expanded_queries) ELSE 1) |->
        [expanded_query |-> expanded_queries[j]]]
continue_to_retrieve_tools_for_each_expanded_queries_first(expanded_queries) ==
    [j \in DOMAIN expanded_queries |-> [expanded_query |-> expanded_queries[1]]]
continue_to_retrieve_tools_for_each_expanded_queries(expanded_queries) ==
    [j \in DOMAIN expanded_queries |-> [expanded_query |-> expanded_queries[j]]]

\* the update retrieve_tools_for_expanded_query returns
ExpandedQueryDict(expanded_query, retrieved_tools) ==
    [expanded_query |-> expanded_query, retrieved_tools |-> retrieved_tools]

\* operator.add over the retrieval tasks' updates, applied in the order given
RECURSIVE MergeTaskWrites(_, _, _)
MergeTaskWrites(w, order, n) ==
    IF n = 0 THEN <<>> ELSE MergeTaskWrites(w, order, n - 1) \o w[order[n]]

\* the arguments rerank_expanded_queries calls the Reranker with
\* (variant: the paraphrases are read from state["expanded_queries"])
RerankerArgs_from_state(state) ==
    [user_question |-> state.decomposed_query,
     ai_response |-> state.expanded_queries,
     user_question_results |-> state.decomposed_query_tools,
     sentence_results |-> [j \in DOMAIN state.expanded_query_dicts |->
                              state.expanded_query_dicts[j].retrieved_tools]]
RerankerArgs(state) ==
    [user_question |-> state.decomposed_query,
     ai_response |-> [j \in DOMAIN state.expanded_query_dicts |->
                         state.expanded_query_dicts[j].expanded_query],
     user_question_results |-> state.decomposed_query_tools,
     sentence_results |-> [j \in DOMAIN state.expanded_query_dicts |->
                              state.expanded_query_dicts[j].retrieved_tools]]

\* the branches of one decomposition have just been sent; the index is either
\* not built or holds the catalogue; each retrieval asks for one document
InitBranch ==
    /\ pc = "branches"
    /\ error = "none"
    /\ individual_top_k = 1
    /\ final_top_k = 1
    /\ rewritten_query = "rewritten"
    /\ decomposed_queries = SiblingIntents
    /\ br = continue_to_process_decomposed_queries(SiblingIntents)
    /\ decomposed_query_dicts = <<>>
    /\ comb = IdleCombiner
    /\ list_of_intents = <<>>
    /\ list_of_list_of_tools = <<>>
    /\ final_top_k_tools = <<>>
    /\ has_final = FALSE
    /\ reranker_returns = [i \in DOMAIN SiblingIntents |-> NoResult]
    /\ combine_runs = 0
    /\ raised = NoException
    /\ gen_port = [NoGenCalls EXCEPT !.rewriter = 1, !.decomposer = 1,
                                    !.decomposer_query = "rewritten"]
    /\ sub = [i \in DOMAIN br |-> DecomposedQueryState(br[i].decomposed_query)]
    /\ index \in {NoIndex, index_documents(Tools)}
    /\ history = <<>>
    /\ awaited = NoRuns

\* what the branch steps leave alone
branchFrame ==
    <<individual_top_k, final_top_k, rewritten_query, decomposed_queries,
      decomposed_query_dicts, list_of_intents, list_of_list_of_tools,
      final_top_k_tools, has_final, reranker_returns, combine_runs, gen_port,
      index, history, awaited>>

\* expand_query, first pass: ai_message = self.llm.invoke(messages)
ExpandFreeForm(i) ==
    /\ pc = "branches"
    /\ sub[i].stage = "start"
    /\ \E ok \in BOOLEAN :
         LET state == [sub[i] EXCEPT !.free_calls = @ + 1]
         IN  IF ok
             THEN /\ sub' = [sub EXCEPT ![i] =
                        [state EXCEPT !.stage = "free_done",
                                      !.ai_message = AIMessage(state.decomposed_query)]]
                  /\ UNCHANGED <<pc, error, raised, br, comb>>
             ELSE /\ sub' = [sub EXCEPT ![i] = [state EXCEPT !.stage = "failed_free"]]
                  /\ Abort("expander")
    /\ UNCHANGED branchFrame

\* expand_query, second pass: self.structured_llm.invoke(structured_message),
\* then the node writes expanded_queries and the retrieval tasks are sent
ExpandExtract(i) ==
    /\ pc = "branches"
    /\ sub[i].stage = "free_done"
    /\ \E ok \in BOOLEAN, answer \in ExpandedQueries(sub[i].decomposed_query) :
         LET context == ExpanderStructuredMessage(sub[i].ai_message,
                                                  sub[i].decomposed_query)
             state == [sub[i] EXCEPT !.struct_calls = @ + 1, !.context = context]
             expanded_queries == ExpanderReturn(state.decomposed_query, answer)
         IN  IF ok
             THEN /\ sub' = [sub EXCEPT ![i] =
                        [state EXCEPT !.stage = "expanded",
                                      !.answer = answer,
                                      !.expanded_queries = expanded_queries,
                                      !.writes =
                                          [j \in DOMAIN
                                              continue_to_retrieve_tools_for_each_expanded_queries(
                                                  expanded_queries) |-> <<>>]]]
                  /\ br' = [br EXCEPT
                             ![i].st = "expanded",
                             ![i].tasks = RetrievalTasks(Len(
                                 continue_to_retrieve_tools_for_each_expanded_queries(
                                     expanded_queries)))]
                  /\ UNCHANGED <<pc, error, raised, comb>>
             ELSE /\ sub' = [sub EXCEPT ![i] = [state EXCEPT !.stage = "failed_extract"]]
                  /\ Abort("expander")
    /\ UNCHANGED branchFrame

\* retrieve_tools_for_query: the intent's own candidates
RetrieveSelf(i) ==
    /\ pc = "branches"
    /\ sub[i].stage = "expanded"
    /\ ~sub[i].self_done
    /\ \E backend_ok \in BOOLEAN :
         LET out == RetrieverGenerate(
                        indexer_query(index, AsQuery(sub[i].decomposed_query),
                                      individual_top_k, backend_ok))
             state == [sub[i] EXCEPT !.search_calls = @ + 1]
         IN  IF out.kind = "ok"
             THEN /\ sub' = [sub EXCEPT ![i] =
                        [state EXCEPT !.self_done = TRUE, !.self_write = out.value]]
                  /\ br' = [br EXCEPT ![i].tasks = @ \ {0}]
                  /\ UNCHANGED <<pc, error, raised, comb>>
             ELSE /\ sub' = [sub EXCEPT ![i] = [state EXCEPT !.stage = "failed_retrieval"]]
                  /\ AbortWith("retrieval", out)
    /\ UNCHANGED branchFrame

\* retrieve_tools_for_expanded_query, the task sent for the j-th paraphrase
RetrieveParaphrase(i, j) ==
    /\ pc = "branches"
    /\ sub[i].stage = "expanded"
    /\ sub[i].writes[j] = <<>>
    /\ \E backend_ok \in BOOLEAN :
         LET sent == continue_to_retrieve_tools_for_each_expanded_queries(
                         sub[i].expanded_queries)[j]
             out == RetrieverGenerate(
                        indexer_query(index, sent.expanded_query,
                                      individual_top_k, backend_ok))
             state == [sub[i] EXCEPT !.search_calls = @ + 1]
         IN  IF out.kind = "ok"
             THEN /\ sub' = [sub EXCEPT ![i] =
                        [state EXCEPT
                            !.writes[j] =
                                <<ExpandedQueryDict(sent.expanded_query, out.value)>>]]
                  /\ br' = [br EXCEPT ![i].tasks = @ \ {j}]
                  /\ UNCHANGED <<pc, error, raised, comb>>
             ELSE /\ sub' = [sub EXCEPT ![i] = [state EXCEPT !.stage = "failed_retrieval"]]
                  /\ AbortWith("retrieval", out)
    /\ UNCHANGED branchFrame

\* every retrieval task of the branch has finished: their updates reach the
\* branch state and rerank_expanded_queries may run
BranchBarrier(i) ==
    /\ pc = "branches"
    /\ sub[i].stage = "expanded"
    /\ sub[i].self_done
    /\ \A j \in DOMAIN sub[i].writes : sub[i].writes[j] # <<>>
    /\ \E order \in Orders(Len(sub[i].writes)) :
         sub' = [sub EXCEPT ![i] =
           [@ EXCEPT !.stage = "retrieved",
                     !.decomposed_query_tools = sub[i].self_write,
                     !.expanded_query_dicts =
                         MergeTaskWrites(sub[i].writes, order, Len(sub[i].writes))]]
    /\ br' = [br EXCEPT ![i].st = "retrieved"]
    /\ UNCHANGED <<pc, error, raised, comb>>
    /\ UNCHANGED branchFrame

NextBranch ==
    \/ \E i \in DOMAIN br : ExpandFreeForm(i)
    \/ \E i \in DOMAIN br : ExpandExtract(i)
    \/ \E i \in DOMAIN br : RetrieveSelf(i)
    \/ \E i \in DOMAIN br : \E j \in DOMAIN sub[i].writes : RetrieveParaphrase(i, j)
    \/ \E i \in DOMAIN br : BranchBarrier(i)
    \/ \E i \in DOMAIN br : rerank_expanded_queries(i)
    \/ Join

SpecBranch == InitBranch /\ [][NextBranch]_vars

\* ------------------------------------ the Combiner's tie-break policy
\* the identifiers the shortlists of the policy runs are made of
PolicyTools == Tools \cup {"get_future_value"}

\* the shortlists a Reranker configured with k can return
Shortlists(k) == {<<>>} \cup {l \in SeqsUpTo(PolicyTools, k) : Len(l) = k}

\* num_tools_divisible_by_intent = max(1, self.final_top_k // num_intents)
num_tools_divisible_by_intent(k, num_intents) ==
    IF k \div num_intents > 1 THEN k \div num_intents ELSE 1

Claimed(selection) == {selection[j] : j \in DOMAIN selection}

\* the next n identifiers of a shortlist nobody has claimed yet, added to the
\* selection; an identifier already claimed is passed over
RECURSIVE TakeUnclaimed(_, _, _)
TakeUnclaimed(shortlist, selection, n) ==
    IF n = 0 \/ shortlist = <<>> THEN selection
    ELSE IF Head(shortlist) \in Claimed(selection)
         THEN TakeUnclaimed(Tail(shortlist), selection, n)
         ELSE TakeUnclaimed(Tail(shortlist), Append(selection, Head(shortlist)), n - 1)

\* first pass: the top share of every intent, in intent order
RECURSIVE FirstPass(_, _, _, _)
FirstPass(shortlists, i, selection, share) ==
    IF i > Len(shortlists) THEN selection
    ELSE FirstPass(shortlists, i + 1,
                   TakeUnclaimed(shortlists[i], selection, share), share)

\* afterwards: one more identifier per intent in turn, until k are selected or
\* nothing unclaimed is left
RECURSIVE CycleIntents(_, _, _, _)
CycleIntents(shortlists, i, selection, k) ==
    IF \/ Len(selection) >= k
       \/ \A n \in DOMAIN shortlists : \A j \in DOMAIN shortlists[n] :
             shortlists[n][j] \in Claimed(selection)
    THEN selection
    ELSE CycleIntents(shortlists, (i % Len(shortlists)) + 1,
                      TakeUnclaimed(shortlists[i], selection, 1), k)

TieBreakSelection(shortlists, k) ==
    CycleIntents(shortlists, 1,
                 FirstPass(shortlists, 1, <<>>,
                           num_tools_divisible_by_intent(k, Len(shortlists))),
                 k)

\* a Combiner call with two or more intents and their shortlists
InitPolicy ==
    /\ pc = "policy"
    /\ error = "none"
    /\ individual_top_k \in 1..MaxK
    /\ final_top_k \in 1..MaxK
    /\ rewritten_query = "rewritten"
    /\ \E n \in 2..MaxIntents :
          /\ decomposed_queries = [i \in 1..n |-> i]
          /\ list_of_intents = [i \in 1..n |-> i]
          /\ list_of_list_of_tools \in [1..n -> Shortlists(individual_top_k)]
    /\ br = <<>>
    /\ decomposed_query_dicts = <<>>
    /\ comb = IdleCombiner
    /\ final_top_k_tools = <<>>
    /\ has_final = FALSE
    /\ reranker_returns = <<>>
    /\ combine_runs = 0
    /\ raised = NoException
    /\ gen_port = [NoGenCalls EXCEPT !.rewriter = 1, !.decomposer = 1,
                                    !.decomposer_query = "rewritten"]
    /\ sub = <<>>
    /\ index = NoIndex
    /\ history = <<>>
    /\ awaited = NoRuns

\* the policy is carried out on the shortlists
ApplyTieBreak ==
    /\ pc = "policy"
    /\ final_top_k_tools' = TieBreakSelection(list_of_list_of_tools, final_top_k)
    /\ has_final' = TRUE
    /\ pc' = "selected"
    /\ UNCHANGED <<error, individual_top_k, final_top_k, rewritten_query,
                   decomposed_queries, br, decomposed_query_dicts, comb,
                   list_of_intents, list_of_list_of_tools, reranker_returns,
                   combine_runs, raised, gen_port, sub, index, history, awaited>>

NextPolicy == ApplyTieBreak

SpecPolicy == InitPolicy /\ [][NextPolicy]_vars

\* ------------------------------------ the vector store indexer on its own
\* no workflow is running
NoWorkflow ==
    /\ pc = "start"
    /\ error = "none"
    /\ individual_top_k = 1
    /\ final_top_k = 1
    /\ rewritten_query = ""
    /\ decomposed_queries = <<>>
    /\ br = <<>>
    /\ decomposed_query_dicts = <<>>
    /\ comb = IdleCombiner
    /\ list_of_intents = <<>>
    /\ list_of_list_of_tools = <<>>
    /\ final_top_k_tools = <<>>
    /\ has_final = FALSE
    /\ reranker_returns = <<>>
    /\ combine_runs = 0
    /\ raised = NoException
    /\ gen_port = NoGenCalls

SaveNotReady ==
    Exc("ValueError", <<"Index has not been created yet. Call 'index_documents' first.">>)
\* what FAISS raises when building, loading or saving fails
BuildFailure == Exc("RuntimeError", <<"building the index failed">>)
LoadFailure == Exc("RuntimeError", <<"loading the index failed">>)
SaveFailure == Exc("OSError", <<"saving the index failed">>)

\* FAISSVectorStoreIndexer.aquery
indexer_aquery(idx, query, k, backend_ok) ==
    IF idx.ready
    THEN IF backend_ok THEN Ok(similarity_search(idx, query, k)) ELSE SearchFailure
    ELSE IndexNotReady

\* FAISSVectorStoreIndexer.save_index
indexer_save_index(idx, backend_ok) ==
    IF idx.ready
    THEN IF backend_ok THEN Ok(<<>>) ELSE SaveFailure
    ELSE SaveNotReady

\* what reading self.embedding_model raises when __init__ never assigned it
NoEmbeddingModel ==
    Exc("AttributeError",
        <<"'FAISSVectorStoreIndexer' object has no attribute 'embedding_model'">>)

\* FAISSVectorStoreIndexer.__init__(embedding_model): self.embedding_model is
\* assigned only when a model is given (the default is None); self.index = None
InitIndexer ==
    /\ NoWorkflow
    /\ sub = <<>>
    /\ \E given \in BOOLEAN : index = [NoIndex EXCEPT !.embedding_model = given]
    /\ history = <<>>
    /\ awaited = NoRuns

Called(op, out) == [op |-> op, out |-> out]

\* index_documents(documents): self.embedding_model is read first; the
\* assignment happens only if FAISS returns
IndexDocuments ==
    /\ Len(history) < MaxCalls
    /\ \E D \in (SUBSET Tools) \ {{}}, backend_ok \in BOOLEAN :
         LET out == IF ~index.embedding_model THEN NoEmbeddingModel
                    ELSE IF backend_ok THEN Ok(<<>>) ELSE BuildFailure
         IN  /\ index' = IF out.kind = "ok" THEN index_documents(D) ELSE index
             /\ history' = Append(history, Called("index_documents", out))
    /\ UNCHANGED <<workflowVars, sub>>

\* load_index(load_path): a saved index is read back
LoadIndex ==
    /\ Len(history) < MaxCalls
    /\ \E D \in (SUBSET Tools) \ {{}}, backend_ok \in BOOLEAN :
         LET out == IF ~index.embedding_model THEN NoEmbeddingModel
                    ELSE IF backend_ok THEN Ok(<<>>) ELSE LoadFailure
         IN  /\ index' = IF out.kind = "ok" THEN index_documents(D) ELSE index
             /\ history' = Append(history, Called("load_index", out))
    /\ UNCHANGED <<workflowVars, sub>>

Query ==
    /\ Len(history) < MaxCalls
    /\ \E query \in RetrieverQueries, k \in 1..MaxK, backend_ok \in BOOLEAN :
         LET out == indexer_query(index, query, k, backend_ok)
         IN  /\ history' = Append(history, Called("query", out))
             /\ index' = index_after_query(index, out)
    /\ UNCHANGED <<workflowVars, sub>>

AQuery ==
    /\ Len(history) < MaxCalls
    /\ \E query \in RetrieverQueries, k \in 1..MaxK, backend_ok \in BOOLEAN :
         LET out == indexer_aquery(index, query, k, backend_ok)
         IN  /\ history' = Append(history, Called("aquery", out))
             /\ index' = index_after_query(index, out)
    /\ UNCHANGED <<workflowVars, sub>>

SaveIndex ==
    /\ Len(history) < MaxCalls
    /\ \E backend_ok \in BOOLEAN :
         history' = Append(history, Called("save_index",
                                          indexer_save_index(index, backend_ok)))
    /\ UNCHANGED <<workflowVars, sub, index>>

NextIndexer == IndexDocuments \/ LoadIndex \/ Query \/ AQuery \/ SaveIndex

SpecIndexer == InitIndexer /\ [][NextIndexer]_vars

\* ------------------- generate and agenerate called directly, side by side
\* one Generation Port call: which model, with which reasoning, and the outcome
PortCall(pass, context, out) == [pass |-> pass, context |-> context, out |-> out]

\* what the free-form model answers, as a port outcome
ReasoningText == [kind |-> "text", tool_names |-> <<>>]

\* one turn of the while loop of RerankerMultiQueryExpansionVariations.generate:
\* one port call
RerankerGenerateAttempt(run, resp) ==
    LET attempts == run.attempts + 1
        out == RerankerStructuredInvoke(resp)
        result == IF out.kind = "ok" THEN out ELSE run.result
        leave == \/ out.kind = "ok" /\ RerankerAttemptSucceeds(out)
                 \/ ~(attempts < reranker_max_attempts)
    IN  [run EXCEPT !.attempts = attempts,
                    !.result = result,
                    !.calls = Append(@, PortCall("structured_llm", 0, out)),
                    !.done = leave,
                    !.ret = IF leave THEN RerankerReturn(result) ELSE <<>>]

\* agenerate of the Reranker: max_attempts, structured_llm.ainvoke, the test of
\* the length and the return after the loop
reranker_agenerate_max_attempts == 3

\* result = await self.structured_llm.ainvoke(messages), handed over as is
RerankerStructuredAinvoke(resp) == resp

RerankerAgenerateReturn(result) ==
    IF result.kind = "ok" /\ Len(result.tool_names) = reranker_top_k
    THEN result.tool_names ELSE <<>>

\* one turn of the while loop of RerankerMultiQueryExpansionVariations.agenerate
RerankerAgenerateAttempt(run, resp) ==
    LET attempts == run.attempts + 1
        out == RerankerStructuredAinvoke(resp)
        result == IF out.kind = "ok" THEN out ELSE run.result
        leave == \/ out.kind = "ok" /\ Len(out.tool_names) = reranker_top_k
                 \/ ~(attempts < reranker_agenerate_max_attempts)
    IN  [run EXCEPT !.attempts = attempts,
                    !.result = result,
                    !.calls = Append(@, PortCall("structured_llm", 0, out)),
                    !.done = leave,
                    !.ret = IF leave THEN RerankerAgenerateReturn(result) ELSE <<>>]

\* _get_final_combined_thoughts_messages: list_of_list_of_tools[0] and the
\* division by the number of intents come first, then one shortlist per intent
CombinerMessages(intents, lists) ==
    IF lists = <<>>
    THEN Exc("IndexError", <<"list index out of range">>)
    ELSE IF intents = <<>>
         THEN Exc("ZeroDivisionError", <<"integer division or modulo by zero">>)
         ELSE IF Len(lists) < Len(intents)
              THEN Exc("IndexError", <<"list index out of range">>)
              ELSE Ok(<<Len(intents), Len(lists[1]),
                        num_tools_divisible_by_intent(final_top_k, Len(intents))>>)

\* the prompt is composed inside the try of the loop
\* (variant: the prompt is composed before the try)
CombinerComposesInTry_not == FALSE
CombinerComposesInTry == TRUE

\* a turn of the while loop of RerankerDecomposedQueries.generate up to the
\* free-form call: the prompt is composed and self.llm.invoke called
CombinerGenerateFreeForm(run, intents, lists, resp) ==
    LET attempts == run.attempts + 1
        last == ~(attempts < combiner_max_attempts)
        messages == CombinerMessages(intents, lists)
        free == PortCall("llm", 0, resp)
    IN  IF messages.kind = "exc"
        THEN IF CombinerComposesInTry
             THEN [run EXCEPT !.attempts = attempts, !.done = last,
                              !.ret = IF last THEN CombinerReturn(run.result) ELSE <<>>]
             ELSE [run EXCEPT !.attempts = attempts, !.done = TRUE,
                              !.raised = messages]
        ELSE IF resp.kind = "exc"
        THEN [run EXCEPT !.attempts = attempts, !.done = last,
                         !.calls = Append(@, free),
                         !.ret = IF last THEN CombinerReturn(run.result) ELSE <<>>]
        ELSE [run EXCEPT !.attempts = attempts,
                         !.calls = Append(@, free),
                         !.phase = "extract"]

\* the rest of the turn: self.structured_llm.invoke on the reasoning of this
\* attempt, the test of the distinct names, and the return when the loop ends
CombinerGenerateExtract(run, resp) ==
    LET last == ~(run.attempts < combiner_max_attempts)
        out == CombinerStructuredInvoke(resp)
        extract == PortCall("structured_llm", CombinerReasoning(run.attempts), out)
        result == IF out.kind = "ok" THEN out ELSE run.result
        leave == (out.kind = "ok" /\ CombinerAttemptSucceeds(out)) \/ last
    IN  [run EXCEPT !.phase = "loop",
                    !.result = result,
                    !.calls = Append(@, extract),
                    !.done = leave,
                    !.ret = IF leave THEN CombinerReturn(result) ELSE <<>>]

\* agenerate of the Combiner: max_attempts, structured_llm.ainvoke, the test of
\* the distinct names and the return after the loop
combiner_agenerate_max_attempts == 3

CombinerStructuredAinvoke(resp) == resp

\* (variant: the awaited test counts the names, not the distinct names)
CombinerAgenerateSucceeds_by_length(result) == Len(result.tool_names) = final_top_k
CombinerAgenerateSucceeds(result) == UniqueCount(result.tool_names) = final_top_k

CombinerAgenerateReturn(result) ==
    IF result.kind = "ok" /\ UniqueCount(result.tool_names) = final_top_k
    THEN result.tool_names ELSE <<>>

\* a turn of the while loop of RerankerDecomposedQueries.agenerate up to the
\* free-form call: the prompt is composed and self.llm.ainvoke awaited
CombinerAgenerateFreeForm(run, intents, lists, resp) ==
    LET attempts == run.attempts + 1
        last == ~(attempts < combiner_agenerate_max_attempts)
        messages == CombinerMessages(intents, lists)
        free == PortCall("llm", 0, resp)
    IN  IF messages.kind = "exc"
        THEN [run EXCEPT !.attempts = attempts, !.done = last,
                         !.ret = IF last THEN CombinerAgenerateReturn(run.result)
                                 ELSE <<>>]
        ELSE IF resp.kind = "exc"
        THEN [run EXCEPT !.attempts = attempts, !.done = last,
                         !.calls = Append(@, free),
                         !.ret = IF last THEN CombinerAgenerateReturn(run.result)
                                 ELSE <<>>]
        ELSE [run EXCEPT !.attempts = attempts,
                         !.calls = Append(@, free),
                         !.phase = "extract"]

\* the rest of the turn: self.structured_llm.ainvoke awaited, the test and
\* the return when the loop ends
CombinerAgenerateExtract(run, resp) ==
    LET last == ~(run.attempts < combiner_agenerate_max_attempts)
        out == CombinerStructuredAinvoke(resp)
        extract == PortCall("structured_llm", CombinerReasoning(run.attempts), out)
        result == IF out.kind = "ok" THEN out ELSE run.result
        leave == (out.kind = "ok" /\ CombinerAgenerateSucceeds(out)) \/ last
    IN  [run EXCEPT !.phase = "loop",
                    !.result = result,
                    !.calls = Append(@, extract),
                    !.done = leave,
                    !.ret = IF leave THEN CombinerAgenerateReturn(result) ELSE <<>>]

\* a Reranker or a Combiner, built with some k, is called directly, generate
\* and agenerate with the same arguments; the Combiner with no intent or with
\* the most intents, and with any number of shortlists
InitCalls ==
    /\ pc = "calls"
    /\ error = "none"
    /\ \E c \in {"reranker", "combiner"}, k \in 1..MaxK :
          /\ awaited = [NoRuns EXCEPT !.component = c]
          /\ individual_top_k = (IF c = "reranker" THEN k ELSE 1)
          /\ final_top_k = (IF c = "combiner" THEN k ELSE 1)
          /\ \E n \in {0, MaxIntents}, m \in 0..MaxIntents :
                /\ list_of_intents =
                       [i \in 1..(IF c = "combiner" THEN n ELSE 0) |-> i]
                /\ list_of_list_of_tools =
                       [i \in 1..(IF c = "combiner" THEN m ELSE 0) |-> <<>>]
    /\ rewritten_query = ""
    /\ decomposed_queries = <<>>
    /\ br = <<>>
    /\ decomposed_query_dicts = <<>>
    /\ comb = IdleCombiner
    /\ final_top_k_tools = <<>>
    /\ has_final = FALSE
    /\ reranker_returns = <<>>
    /\ combine_runs = 0
    /\ raised = NoException
    /\ gen_port = NoGenCalls
    /\ sub = <<>>
    /\ index = NoIndex
    /\ history = <<>>

callsFrame ==
    <<pc, error, individual_top_k, final_top_k, rewritten_query, decomposed_queries,
      br, decomposed_query_dicts, comb, list_of_intents, list_of_list_of_tools,
      final_top_k_tools, has_final, reranker_returns, combine_runs, raised,
      gen_port, sub, index, history>>

\* what the port gives the next call of a run: the outcome the other run had
\* at that position, or any outcome when this run is the first to get there
PortOutcomes(run, fresh) ==
    IF Len(run.calls) < Len(awaited.script)
    THEN {awaited.script[Len(run.calls) + 1]}
    ELSE fresh

\* the outcomes given so far, once the run has taken its step
ScriptAfter(run, resp) ==
    IF Len(run.calls) > Len(awaited.script)
    THEN Append(awaited.script, resp)
    ELSE awaited.script

\* what a free-form call may give
FreeFormResponses == {Raised, ReasoningText}

\* one of the two Reranker calls makes its next port call
RerankerCalls ==
    /\ awaited.component = "reranker"
    /\ \E call \in {"sync", "async"} :
         /\ ~awaited[call].done
         /\ \E resp \in PortOutcomes(awaited[call], PortResponses(individual_top_k)) :
              LET run == IF call = "sync"
                         THEN RerankerGenerateAttempt(awaited.sync, resp)
                         ELSE RerankerAgenerateAttempt(awaited.async, resp)
              IN  awaited' = [awaited EXCEPT ![call] = run,
                                             !.script = ScriptAfter(run, resp)]
    /\ UNCHANGED callsFrame

\* one of the two Combiner calls starts a turn of its loop: the prompt and the
\* free-form call
CombinerFreeFormCalls ==
    /\ awaited.component = "combiner"
    /\ \E call \in {"sync", "async"} :
         /\ ~awaited[call].done
         /\ awaited[call].phase = "loop"
         /\ \E resp \in PortOutcomes(awaited[call], FreeFormResponses) :
              LET run == IF call = "sync"
                         THEN CombinerGenerateFreeForm(awaited.sync, list_of_intents,
                                                       list_of_list_of_tools, resp)
                         ELSE CombinerAgenerateFreeForm(awaited.async, list_of_intents,
                                                        list_of_list_of_tools, resp)
              IN  awaited' = [awaited EXCEPT ![call] = run,
                                             !.script = ScriptAfter(run, resp)]
    /\ UNCHANGED callsFrame

\* one of the two Combiner calls makes the extraction call of its turn
CombinerExtractCalls ==
    /\ awaited.component = "combiner"
    /\ \E call \in {"sync", "async"} :
         /\ ~awaited[call].done
         /\ awaited[call].phase = "extract"
         /\ \E resp \in PortOutcomes(awaited[call], PortResponses(final_top_k)) :
              LET run == IF call = "sync"
                         THEN CombinerGenerateExtract(awaited.sync, resp)
                         ELSE CombinerAgenerateExtract(awaited.async, resp)
              IN  awaited' = [awaited EXCEPT ![call] = run,
                                             !.script = ScriptAfter(run, resp)]
    /\ UNCHANGED callsFrame

NextCalls == RerankerCalls \/ CombinerFreeFormCalls \/ CombinerExtractCalls

SpecCalls == InitCalls /\ [][NextCalls]_vars

\* ------------------------------------------------------------ properties
\* a Reranker call of branch i has returned a non-empty list
RerankerSucceeded(i) == br[i].st = "reranked" /\ br[i].top_tools # <<>>
\* the Combiner call has returned a non-empty list
CombinerSucceeded == comb.phase = "returned" /\ comb.ret # <<>>
ShortlistUnion ==
    UNION {{list_of_list_of_tools[i][j] : j \in DOMAIN list_of_list_of_tools[i]} :
              i \in DOMAIN list_of_list_of_tools}

\* C1: a successful return of the Intent-Level Reranker is a list of exactly
\* top_k tool identifiers without a duplicate.  generate tests the length only,
\* so an answer of top_k names that repeats one is returned.
C1_Original ==
    \A i \in DOMAIN br :
        RerankerSucceeded(i) =>
            /\ Len(br[i].top_tools) = individual_top_k
            /\ NoDuplicates(br[i].top_tools)

\* C2: with two or more intents, a successful return of the Cross-Intent Combiner
\* is a list of exactly final_k identifiers without a duplicate.  generate tests
\* only the number of distinct names, so an answer the FinalToolNames schema
\* forbids is returned when the port lets it through.
C2_CombinerExactUnique ==
    (CombinerSucceeded /\ Len(list_of_intents) >= 2) =>
        /\ CombinerFinalToolNames(comb.ret)
        /\ NoDuplicates(comb.ret)

\* C3 as stated: every identifier of a successful Combiner return appears in the
\* union of the input shortlists.
C3_Original ==
    CombinerSucceeded =>
        \A j \in DOMAIN comb.ret : comb.ret[j] \in ShortlistUnion

\* C3 amended: a successful Combiner return is, verbatim, the list of the last
\* extraction answer of the Generation Port (final_k distinct identifiers); the
\* identifiers are not checked against the input shortlists.
C3_Amended ==
    CombinerSucceeded =>
        /\ comb.result.kind = "ok"
        /\ comb.ret = comb.result.tool_names
        /\ UniqueCount(comb.ret) = final_top_k

C3_Witness ==
    /\ CombinerSucceeded
    /\ Len(list_of_intents) >= 2
    /\ \E j \in DOMAIN comb.ret : comb.ret[j] \notin ShortlistUnion

\* C4: when decomposition produces exactly one intent, the Fusion Result is that
\* intent's Reranker output, same elements in the same order, and the Combiner is
\* never invoked in that run.
C4_SingleIntentShortcut ==
    Len(decomposed_queries) = 1 =>
        /\ comb = IdleCombiner
        /\ list_of_intents = <<>>
        /\ pc \notin {"combining", "halted"}
        /\ pc = "done" =>
              /\ has_final
              /\ reranker_returns[1].kind = "ok"
              /\ final_top_k_tools = reranker_returns[1].tool_names

C4_Witness ==
    /\ pc = "done"
    /\ Len(decomposed_queries) = 1
    /\ has_final
    /\ Len(final_top_k_tools) = individual_top_k
    /\ individual_top_k >= 2
    /\ final_top_k_tools[1] # final_top_k_tools[2]

\* C5 as stated: one Reranker call invokes the Generation Port at most 3 times and
\* one Combiner call invokes the Generation Port at most 3 times.
C5_Original ==
    /\ \A i \in DOMAIN br : br[i].calls <= 3
    /\ comb.free_calls + comb.struct_calls <= 3

\* C5 amended: one Reranker call invokes the Generation Port at most 3 times; one
\* Combiner call makes at most 3 attempts, each with at most one free-form and one
\* extraction call, so at most 6 Generation Port calls.
C5_Amended ==
    /\ \A i \in DOMAIN br : br[i].calls <= 3 /\ br[i].calls = br[i].attempts
    /\ comb.attempts <= 3
    /\ comb.free_calls <= 3
    /\ comb.struct_calls <= comb.free_calls
    /\ comb.free_calls + comb.struct_calls <= 6

C5_Witness ==
    /\ comb.phase = "returned"
    /\ comb.free_calls = 3
    /\ comb.struct_calls = 3

\* C6: when each of the 3 attempts of a Reranker call fails (the port raised, or
\* answered a list whose length is not top_k), the call returns the empty list and
\* raises nothing; no Generation Port exception leaves the Reranker.
C6_RerankerExhaustion ==
    /\ error # "reranker"
    /\ \A i \in DOMAIN br :
          br[i].fails >= 3 =>
              /\ br[i].st = "reranked"
              /\ br[i].top_tools = <<>>
              /\ reranker_returns[i] = Returned(<<>>)

C6_Witness ==
    \E i \in DOMAIN br :
        /\ br[i].fails = 3
        /\ br[i].st = "reranked"
        /\ br[i].top_tools = <<>>
        /\ pc = "branches"

\* C7: when each of the 3 attempts of a Combiner call fails (the port raised in
\* either pass, or the extracted list has not final_k distinct members), the call
\* returns the empty list and raises nothing.
C7_CombinerExhaustion ==
    /\ error # "combiner"
    /\ comb.fails >= 3 =>
          /\ comb.phase = "returned"
          /\ comb.ret = <<>>
          /\ pc = "done"
          /\ has_final
          /\ final_top_k_tools = <<>>

C7_Witness ==
    /\ comb.fails = 3
    /\ comb.phase = "returned"
    /\ comb.result.kind = "ok"
    /\ comb.struct_calls < comb.free_calls
    /\ final_top_k_tools = <<>>

\* C8: every Intent Result accumulated in decomposed_query_dicts, and every one a
\* finished branch is about to contribute, has a shortlist of length exactly
\* top_k or the empty list.
C8_ShortlistLength ==
    /\ \A j \in DOMAIN decomposed_query_dicts :
          Len(decomposed_query_dicts[j].final_top_k_tools) \in {0, individual_top_k}
    /\ \A i \in DOMAIN br : \A j \in DOMAIN br[i].update :
          Len(br[i].update[j].final_top_k_tools) \in {0, individual_top_k}

C8_Witness ==
    /\ Len(decomposed_query_dicts) >= 2
    /\ Len(decomposed_query_dicts[1].final_top_k_tools) = individual_top_k
    /\ decomposed_query_dicts[2].final_top_k_tools = <<>>

\* C9 as stated: at the terminal state, on either path and for any top_k and
\* final_k, the Fusion Result has length exactly final_k without a duplicate, or
\* is the empty list.
C9_Original ==
    pc = "done" =>
        \/ final_top_k_tools = <<>>
        \/ Len(final_top_k_tools) = final_top_k /\ NoDuplicates(final_top_k_tools)

\* C9 amended: at the terminal state, on the multi-intent path the Fusion Result
\* is the empty list or names exactly final_k distinct identifiers (it is longer
\* than final_k, with repeats, only when the port let such an answer through);
\* on the single-intent path it is that intent's shortlist, of length exactly
\* top_k (not final_k) or empty, and may hold duplicates.
C9_Amended ==
    pc = "done" =>
        /\ has_final
        /\ IF Len(decomposed_queries) >= 2
           THEN \/ final_top_k_tools = <<>>
                \/ UniqueCount(final_top_k_tools) = final_top_k
           ELSE Len(final_top_k_tools) \in {0, individual_top_k}

C9_Witness ==
    /\ pc = "done"
    /\ Len(decomposed_queries) = 1
    /\ individual_top_k # final_top_k
    /\ Len(final_top_k_tools) = individual_top_k

\* the branches of the decomposition and what the join hands to the combine
\* step: N branches, one per intent; the combine step not before every branch
\* is reranked, and decomposed_query_dicts then holds exactly one Intent Result
\* per spawned branch
BranchesAndJoin ==
    LET N == Len(decomposed_queries)
    IN  /\ pc = "branches" =>
              /\ Len(br) = N
              /\ \A i \in 1..N : br[i].decomposed_query = decomposed_queries[i]
              /\ decomposed_query_dicts = <<>>
        /\ pc \notin {"combining", "done"} => combine_runs = 0
        /\ pc \in {"joined", "combining", "done"} =>
              /\ N >= 1
              /\ Len(decomposed_query_dicts) = N
              /\ \A i \in 1..N : reranker_returns[i].kind = "ok"
              /\ \A i \in 1..N :
                    Cardinality({j \in 1..N :
                        decomposed_query_dicts[j].decomposed_query
                            = decomposed_queries[i]}) = 1

\* C10 as stated: for a decomposition into N intents, N branches are spawned
\* and the combine step runs exactly once, after all N branches: a run that
\* has ended without an exception has run it once, for every N
C10_Original ==
    /\ BranchesAndJoin
    /\ combine_runs = (IF pc \in {"combining", "done", "halted"} THEN 1 ELSE 0)

\* C10: a decomposition into N >= 1 intents spawns exactly N branches; the
\* combine step runs once, only after all N branches are reranked, and
\* decomposed_query_dicts then holds exactly one Intent Result per spawned
\* branch.  A decomposition into no intent spawns no branch and the run ends
\* without the combine step.
C10_SynchronizingJoin ==
    /\ BranchesAndJoin
    /\ combine_runs = (IF pc \in {"combining", "done"} THEN 1 ELSE 0)
    /\ pc \in {"combining", "done"} => Len(decomposed_queries) >= 1
    /\ pc = "halted" =>
          /\ decomposed_queries = <<>>
          /\ br = <<>>
          /\ decomposed_query_dicts = <<>>
          /\ combine_runs = 0

C10_Witness ==
    /\ pc = "combining"
    /\ Len(decomposed_queries) = MaxIntents
    /\ combine_runs = 1
    /\ Len(decomposed_query_dicts) = MaxIntents

\* C11: the intents and the shortlists handed to the Combiner are matched
\* pairs: the shortlist at every position is the one the Reranker returned in
\* the branch of the intent at that position
C11_MatchedPairs ==
    list_of_intents # <<>> =>
        /\ Len(list_of_list_of_tools) = Len(list_of_intents)
        /\ \A i \in DOMAIN list_of_intents :
              /\ \E b \in DOMAIN decomposed_queries :
                    decomposed_queries[b] = list_of_intents[i]
              /\ \A b \in DOMAIN decomposed_queries :
                    decomposed_queries[b] = list_of_intents[i] =>
                        /\ reranker_returns[b].kind = "ok"
                        /\ list_of_list_of_tools[i] = reranker_returns[b].tool_names

C11_Witness ==
    /\ comb.phase = "returned"
    /\ Len(list_of_intents) = 2
    /\ list_of_list_of_tools[1] # list_of_list_of_tools[2]

NoBranchSpawned ==
    /\ br = <<>>
    /\ decomposed_queries = <<>>
    /\ reranker_returns = <<>>
    /\ decomposed_query_dicts = <<>>

\* C20: in a run of the workflow the rewriter and the decomposer each make
\* exactly one Generation Port call; when that call raises, the exception leaves
\* the run unchanged and no branch is spawned
C20_RewriterDecomposerOneCall ==
    /\ gen_port.rewriter =
           (IF pc = "start" \/ error = "construction" THEN 0 ELSE 1)
    /\ gen_port.decomposer =
           (IF pc \in {"start", "rewritten"} \/ error \in {"rewriter", "construction"}
            THEN 0 ELSE 1)
    /\ gen_port.rewriter_raised =>
           /\ pc = "error" /\ error = "rewriter"
           /\ raised = GenerationError
           /\ NoBranchSpawned
    /\ gen_port.decomposer_raised =>
           /\ pc = "error" /\ error = "decomposer"
           /\ raised = GenerationError
           /\ NoBranchSpawned

C20_Witness ==
    /\ gen_port.decomposer_raised
    /\ gen_port.rewriter = 1
    /\ gen_port.decomposer = 1
    /\ raised = GenerationError

\* msg contains part as a contiguous piece
Contains(msg, part) ==
    \E i \in 1..(Len(msg) + 1 - Len(part)) :
        SubSeq(msg, i, i + Len(part) - 1) = part

\* C15: every Tool Retriever call puts one query to the index and does not
\* retry: an error of the index comes back as a ValueError whose message
\* contains the original message, a successful result comes back unchanged
C15_RetrieverOneCallWraps ==
    \A n \in DOMAIN history :
        LET c == history[n]
        IN  /\ c.port_calls = 1
            /\ c.port.kind = "ok" => c.result = c.port
            /\ c.port.kind = "exc" =>
                  /\ c.result.kind = "exc"
                  /\ c.result.type = "ValueError"
                  /\ c.port.msg # <<>>
                  /\ Contains(c.result.msg, c.port.msg)

C15_Witness ==
    /\ \E n \in DOMAIN history : history[n].port = SearchFailure
    /\ \E n \in DOMAIN history :
          history[n].port.kind = "ok" /\ Len(history[n].result.value) = 2

\* the stages of a branch in which its Query Expander call has returned
ExpanderReturned == {"expanded", "retrieved", "failed_retrieval"}

\* C13: whatever the interleaving, the paraphrases and candidates a branch
\* holds come from its own intent only, and all a branch adds to the parent
\* state is its one Intent Result in decomposed_query_dicts
C13_BranchIsolation ==
    /\ \A i \in DOMAIN sub :
          LET state == sub[i]
              own == decomposed_queries[i]
          IN  /\ state.decomposed_query = own
              /\ \A j \in DOMAIN state.expanded_queries :
                    state.expanded_queries[j].of = own
              /\ \A j \in DOMAIN state.expanded_query_dicts :
                    /\ state.expanded_query_dicts[j].expanded_query.of = own
                    /\ state.expanded_query_dicts[j].retrieved_tools =
                           similarity_search(index,
                               state.expanded_query_dicts[j].expanded_query,
                               individual_top_k)
              /\ state.stage = "retrieved" =>
                    state.decomposed_query_tools =
                        similarity_search(index, AsQuery(own), individual_top_k)
    /\ pc # "joined" => decomposed_query_dicts = <<>>
    /\ pc = "joined" =>
          /\ Len(decomposed_query_dicts) = Len(decomposed_queries)
          /\ \E order \in Orders(Len(decomposed_queries)) :
                \A i \in DOMAIN decomposed_queries :
                    decomposed_query_dicts[i] =
                        IntentResult(decomposed_queries[order[i]],
                                     reranker_returns[order[i]].tool_names)
    /\ rewritten_query = "rewritten"
    /\ decomposed_queries = SiblingIntents
    /\ final_top_k_tools = <<>>
    /\ ~has_final

C13_Witness ==
    /\ pc = "joined"
    /\ decomposed_query_dicts[1].decomposed_query # decomposed_queries[1]
    /\ \A i \in DOMAIN sub : Len(sub[i].expanded_query_dicts) = 2
    /\ \A i \in DOMAIN decomposed_query_dicts :
          decomposed_query_dicts[i].final_top_k_tools # <<>>

C16_IndexNotReadyPropagates ==
    ~index.ready =>
        /\ \A i \in DOMAIN sub :
              /\ ~sub[i].self_done
              /\ \A j \in DOMAIN sub[i].writes : sub[i].writes[j] = <<>>
              /\ sub[i].stage # "retrieved"
              /\ sub[i].search_calls <= 1
              /\ sub[i].search_calls = 1 => sub[i].stage = "failed_retrieval"
              /\ sub[i].stage = "failed_retrieval" =>
                    /\ pc = "error"
                    /\ error = "retrieval"
                    /\ raised = Exc("ValueError",
                                    <<"Error retrieving tools: ">> \o IndexNotReady.msg)
        /\ decomposed_query_dicts = <<>>
        /\ \A i \in DOMAIN reranker_returns : reranker_returns[i] = NoResult

C16_Witness ==
    /\ ~index.ready
    /\ sub[1].stage = "failed_retrieval"
    /\ sub[1].expanded_queries # <<>>
    /\ sub[2].stage = "expanded"
    /\ raised.type = "ValueError"

\* C18 as stated: a Query Expander call that returns gives exactly n_items
\* paraphrases
C18_Original ==
    \A i \in DOMAIN sub :
        sub[i].stage \in ExpanderReturned => Len(sub[i].expanded_queries) = n_items

\* C18 amended: a Query Expander call that returns gives the list of the
\* extraction answer as it is, of whatever length
C18_Amended ==
    \A i \in DOMAIN sub :
        sub[i].stage \in ExpanderReturned =>
            /\ sub[i].expanded_queries = sub[i].answer
            /\ Len(sub[i].expanded_queries) \in 0..MaxParaphrases

C18_Witness ==
    \E i \in DOMAIN sub :
        /\ sub[i].stage \in ExpanderReturned
        /\ Len(sub[i].answer) = 1
        /\ Len(sub[i].expanded_queries) # n_items

\* C19: a Query Expander call makes the free-form call and then the extraction
\* call, once each, the second with the first one's output in its context; a
\* failing call ends the expander call, and after a failed free-form call no
\* extraction call is made
C19_ExpanderTwoPasses ==
    \A i \in DOMAIN sub :
        /\ sub[i].stage = "start" => sub[i].free_calls = 0 /\ sub[i].struct_calls = 0
        /\ sub[i].stage \in {"free_done", "failed_free"} =>
              sub[i].free_calls = 1 /\ sub[i].struct_calls = 0
        /\ sub[i].stage \in ExpanderReturned \cup {"failed_extract"} =>
              /\ sub[i].free_calls = 1 /\ sub[i].struct_calls = 1
              /\ sub[i].ai_message = AIMessage(decomposed_queries[i])
              /\ sub[i].context.AI_response = sub[i].ai_message
        /\ sub[i].stage \in {"failed_free", "failed_extract"} =>
              /\ pc = "error"
              /\ error = "expander"
              /\ raised = GenerationError
              /\ sub[i].expanded_queries = <<>>

C19_Witness ==
    /\ sub[1].stage = "failed_free"
    /\ sub[1].struct_calls = 0
    /\ sub[2].stage = "expanded"
    /\ sub[2].struct_calls = 1

\* C21: a Reranker or Combiner call that returns a list made its last Generation
\* Port call in the first attempt that succeeded and returns that attempt's
\* list; all attempts of one Reranker call send the same prompt
C21_StopAtFirstSuccess ==
    /\ \A i \in DOMAIN br :
          /\ Cardinality(br[i].prompts) <= 1
          /\ br[i].calls > 0 => br[i].prompts = {RerankerMessages(br[i])}
          /\ RerankerSucceeded(i) =>
                /\ br[i].calls = br[i].attempts
                /\ br[i].fails = br[i].calls - 1
                /\ br[i].top_tools = br[i].result.tool_names
                /\ reranker_returns[i] = Returned(br[i].result.tool_names)
    /\ CombinerSucceeded =>
          /\ comb.fails = comb.attempts - 1
          /\ comb.free_calls = comb.attempts
          /\ comb.struct_calls <= comb.attempts
          /\ comb.ret = comb.result.tool_names
          /\ final_top_k_tools = comb.result.tool_names

C21_Witness ==
    \E i \in DOMAIN br :
        /\ RerankerSucceeded(i)
        /\ br[i].calls = 2
        /\ br[i].fails = 1
        /\ Cardinality(br[i].prompts) = 1

\* C22 as stated: for any number of intents the tie-break policy selects
\* final_k distinct identifiers when the shortlists hold that many, and all
\* the identifiers they hold otherwise
C22_TieBreakExact ==
    pc = "selected" =>
        /\ NoDuplicates(final_top_k_tools)
        /\ Cardinality(ShortlistUnion) >= final_top_k =>
              Len(final_top_k_tools) = final_top_k
        /\ Cardinality(ShortlistUnion) < final_top_k =>
              Claimed(final_top_k_tools) = ShortlistUnion

\* C23 as stated: the ai_response a branch hands to the Reranker is the
\* reasoning text the first pass of that branch's Query Expander call returned
C23_GroundingIsReasoning ==
    \A i \in DOMAIN sub :
        sub[i].stage = "retrieved" =>
            RerankerArgs(sub[i]).ai_response = sub[i].ai_message

\* an index_documents or load_index call completed before the n-th call
PopulatedBefore(n) ==
    \E m \in 1..(n - 1) :
        /\ history[m].op \in {"index_documents", "load_index"}
        /\ history[m].out.kind = "ok"

\* C24: query, aquery and save_index fail with the index-not-ready error
\* exactly when no index_documents or load_index call has completed before;
\* that error is not the one of a failing backend, and once the index is
\* populated no query fails with it
C24_IndexReadiness ==
    \A n \in DOMAIN history :
        history[n].op \in {"query", "aquery", "save_index"} =>
            /\ (history[n].out \in {IndexNotReady, SaveNotReady}) <=> ~PopulatedBefore(n)
            /\ history[n].op \in {"query", "aquery"} =>
                  ((history[n].out = IndexNotReady) <=> ~PopulatedBefore(n))
            /\ history[n].op = "save_index" =>
                  ((history[n].out = SaveNotReady) <=> ~PopulatedBefore(n))
            /\ history[n].out \in {SearchFailure, SaveFailure} => PopulatedBefore(n)

C24_Witness ==
    /\ Len(history) = 3
    /\ history[1] = Called("query", IndexNotReady)
    /\ history[2] = Called("load_index", Ok(<<>>))
    /\ history[3] = Called("aquery", SearchFailure)

\* C25: every Combiner attempt makes its own free-form call, an extraction
\* call is made only after the free-form call of the same attempt returned
\* and is given the reasoning of that attempt, a raising free-form call ends
\* the attempt without an extraction and still counts, and one Combiner call
\* makes at most 3 calls of each kind
C25_AttemptRedoesBothPasses ==
    /\ comb.free_calls = comb.attempts
    /\ comb.attempts <= 3
    /\ comb.struct_calls <= 3
    /\ comb.phase = "extract" =>
          /\ comb.struct_calls < comb.attempts
          /\ comb.ai_response_content = CombinerReasoning(comb.attempts)
    /\ comb.phase # "extract" => comb.struct_calls <= comb.attempts
    /\ comb.struct_calls > 0 =>
          /\ comb.extract_attempt \in 1..comb.attempts
          /\ comb.structured_messages = CombinerReasoning(comb.extract_attempt)
    /\ comb.struct_calls = 0 => comb.structured_messages = 0
    /\ comb.fails >= comb.attempts - comb.struct_calls - (IF comb.phase = "extract" THEN 1 ELSE 0)

C25_Witness ==
    /\ comb.phase = "returned"
    /\ comb.attempts = 3
    /\ comb.free_calls = 3
    /\ comb.struct_calls = 1
    /\ comb.extract_attempt = 2
    /\ comb.structured_messages = CombinerReasoning(2)
    /\ comb.fails = 3

\* C26: the workflow hands data on unchanged: the shortlists given to the
\* Combiner are, each at the position of its intent, the lists the branches'
\* Rerankers returned (repeats and all), one per branch, and with two or more
\* intents the Fusion Result is the very list the Combiner returned
C26_NoTransformation ==
    /\ list_of_intents # <<>> =>
          /\ Len(list_of_list_of_tools) = Len(decomposed_queries)
          /\ \E order \in Orders(Len(decomposed_queries)) :
                \A i \in DOMAIN list_of_list_of_tools :
                    /\ list_of_intents[i] = decomposed_queries[order[i]]
                    /\ reranker_returns[order[i]] = Returned(list_of_list_of_tools[i])
    /\ (pc = "done" /\ Len(decomposed_queries) >= 2) =>
          /\ comb.phase = "returned"
          /\ has_final
          /\ final_top_k_tools = comb.ret

C26_Witness ==
    /\ pc = "done"
    /\ Len(decomposed_queries) = 2
    /\ Len(list_of_list_of_tools[1]) = 2
    /\ ~NoDuplicates(list_of_list_of_tools[1])
    /\ list_of_list_of_tools[2] = <<>>
    /\ final_top_k_tools # <<>>

\* the Reranker of branch i used up its attempts and returned the empty list
RerankerExhausted(i) == reranker_returns[i] = Returned(<<>>)

\* C27: a Reranker that runs out of attempts stops nothing: its branch ends
\* with an Intent Result whose shortlist is empty, the other branches end
\* with what their own Rerankers returned, with two or more intents the
\* Combiner is called once with every intent and every shortlist, the empty
\* one at the place of its intent, and with one intent the Fusion Result is
\* empty
C27_SoftFailure ==
    /\ error # "reranker"
    /\ \A i \in DOMAIN reranker_returns :
          RerankerExhausted(i) =>
              /\ i \in DOMAIN br =>
                    /\ br[i].st = "reranked"
                    /\ br[i].update = <<IntentResult(decomposed_queries[i], <<>>)>>
                    /\ \A j \in DOMAIN br :
                          (j # i /\ br[j].st = "reranked") =>
                              /\ reranker_returns[j] = Returned(RerankerReturn(br[j].result))
                              /\ br[j].update =
                                    <<IntentResult(decomposed_queries[j],
                                                   reranker_returns[j].tool_names)>>
              /\ pc \in {"joined", "combining", "done"} =>
                    /\ Len(decomposed_query_dicts) = Len(decomposed_queries)
                    /\ \E p \in DOMAIN decomposed_query_dicts :
                          decomposed_query_dicts[p] =
                              IntentResult(decomposed_queries[i], <<>>)
              /\ (pc \in {"combining", "done"} /\ Len(decomposed_queries) >= 2) =>
                    /\ combine_runs = 1
                    /\ comb # IdleCombiner
                    /\ \E order \in Orders(Len(decomposed_queries)) :
                          \A p \in DOMAIN decomposed_queries :
                              list_of_intents[p] = decomposed_queries[order[p]]
                    /\ Len(list_of_list_of_tools) = Len(decomposed_queries)
                    /\ \E p \in DOMAIN list_of_intents :
                          /\ list_of_intents[p] = decomposed_queries[i]
                          /\ list_of_list_of_tools[p] = <<>>
              /\ (pc = "done" /\ Len(decomposed_queries) = 1) =>
                    /\ has_final
                    /\ final_top_k_tools = <<>>

C27_Witness ==
    /\ pc = "done"
    /\ Len(decomposed_queries) = 2
    /\ RerankerExhausted(1)
    /\ ~RerankerExhausted(2)
    /\ list_of_list_of_tools[1] = <<>>
    /\ list_of_list_of_tools[2] # <<>>
    /\ comb.phase = "returned"

\* the order of the stages: the rewriter first and once, the decomposer once,
\* after the rewrite and on its result, the branches after the decomposition,
\* one per intent, the combine step once and after every branch
StageOrder ==
    /\ gen_port.rewriter <= 1
    /\ gen_port.decomposer <= 1
    /\ combine_runs <= 1
    /\ gen_port.decomposer = 1 =>
          /\ gen_port.rewriter = 1
          /\ ~gen_port.rewriter_raised
          /\ gen_port.decomposer_query = rewritten_query
          /\ rewritten_query = "rewritten"
    /\ br # <<>> =>
          /\ pc = "branches"
          /\ gen_port.decomposer = 1
          /\ ~gen_port.decomposer_raised
          /\ Len(br) = Len(decomposed_queries)
          /\ combine_runs = 0
    /\ decomposed_query_dicts # <<>> =>
          /\ gen_port.decomposer = 1
          /\ br = <<>>
    /\ combine_runs = 1 =>
          /\ br = <<>>
          /\ Len(decomposed_query_dicts) = Len(decomposed_queries)
          /\ \A i \in DOMAIN reranker_returns : reranker_returns[i].kind = "ok"

\* every stage has run once
AllStagesRan ==
    /\ gen_port.rewriter = 1
    /\ gen_port.decomposer = 1
    /\ Len(decomposed_query_dicts) = Len(decomposed_queries)
    /\ combine_runs = 1

\* C28 as stated: the stages run in their order and in every run that ends
\* without an exception no stage was skipped or repeated
C28_Original ==
    /\ StageOrder
    /\ pc \in {"done", "halted"} => AllStagesRan

\* C28: the stages run in their order, none is repeated, and in every run that
\* ends without an exception and whose decomposition has at least one intent
\* none was skipped
C28_Amended ==
    /\ StageOrder
    /\ (pc \in {"done", "halted"} /\ Len(decomposed_queries) >= 1) => AllStagesRan

C28_Witness ==
    /\ pc = "done"
    /\ Len(decomposed_queries) = 2
    /\ AllStagesRan
    /\ gen_port.decomposer_query = "rewritten"

\* the rerank step of branch i has started
RerankStarted(i) == br[i].calls > 0 \/ br[i].st = "reranked"

\* C29: in a branch the rerank step runs once, and only after the expansion,
\* the intent's own retrieval and the retrieval of every paraphrase have
\* finished; it then finds decomposed_query_tools set to the intent's own
\* candidates and in expanded_query_dicts one entry for each paraphrase,
\* holding that paraphrase and the candidates retrieved for it
C29_RerankAfterRetrievals ==
    \A i \in DOMAIN br :
        /\ Len(br[i].update) <= 1
        /\ br[i].st = "reranked" <=> Len(br[i].update) = 1
        /\ br[i].calls <= 3
        /\ sub[i].stage # "retrieved" => ~RerankStarted(i)
        /\ RerankStarted(i) =>
              /\ sub[i].stage = "retrieved"
              /\ sub[i].free_calls = 1
              /\ sub[i].struct_calls = 1
              /\ sub[i].self_done
              /\ sub[i].search_calls = 1 + Len(sub[i].expanded_queries)
              /\ sub[i].decomposed_query_tools =
                     similarity_search(index, AsQuery(sub[i].decomposed_query),
                                       individual_top_k)
              /\ Len(sub[i].expanded_query_dicts) = Len(sub[i].expanded_queries)
              /\ \E order \in Orders(Len(sub[i].expanded_queries)) :
                    \A j \in DOMAIN sub[i].expanded_queries :
                        sub[i].expanded_query_dicts[j] =
                            ExpandedQueryDict(
                                sub[i].expanded_queries[order[j]],
                                similarity_search(index,
                                                  sub[i].expanded_queries[order[j]],
                                                  individual_top_k))

C29_Witness ==
    \E i \in DOMAIN br :
        /\ br[i].st = "reranked"
        /\ br[i].calls = 2
        /\ Len(sub[i].expanded_queries) = 2
        /\ sub[i].expanded_query_dicts[1] # sub[i].expanded_query_dicts[2]
        /\ sub[i].decomposed_query_tools # <<>>
        /\ sub[i].expanded_query_dicts[1].expanded_query # sub[i].expanded_queries[1]

\* C30: nothing looks at the length of an expansion: the branch sends one
\* retrieval per string of the list the Query Expander returned, whatever
\* its length, none included; an exception in a branch comes from a failing
\* call, never from the length, and the branch goes on to the rerank step
C30_WrongLengthUndetected ==
    /\ \A i \in DOMAIN sub :
          /\ sub[i].stage \in {"expanded", "retrieved"} =>
                /\ sub[i].expanded_queries = sub[i].answer
                /\ Len(sub[i].writes) = Len(sub[i].answer)
                /\ sub[i].search_calls <= 1 + Len(sub[i].answer)
          /\ sub[i].stage = "retrieved" =>
                /\ sub[i].search_calls = 1 + Len(sub[i].answer)
                /\ Len(RerankerArgs(sub[i]).sentence_results) = Len(sub[i].answer)
          /\ (sub[i].stage = "expanded" /\ pc = "branches") =>
                \/ ENABLED RetrieveSelf(i)
                \/ \E j \in DOMAIN sub[i].writes : ENABLED RetrieveParaphrase(i, j)
                \/ ENABLED BranchBarrier(i)
    /\ pc = "error" =>
          \/ /\ error = "expander"
             /\ \E i \in DOMAIN sub : sub[i].stage \in {"failed_free", "failed_extract"}
          \/ /\ error = "retrieval"
             /\ \E i \in DOMAIN sub : sub[i].stage = "failed_retrieval"

C30_Witness ==
    \E i, j \in DOMAIN br :
        /\ sub[i].stage = "retrieved"
        /\ sub[i].answer = <<>>
        /\ sub[i].search_calls = 1
        /\ br[i].st = "reranked"
        /\ Len(sub[j].answer) = 1
        /\ Len(sub[j].answer) # n_items
        /\ sub[j].search_calls = 2
        /\ br[j].st = "reranked"

\* the port calls both runs have made so far are the same calls
SameCallsSoFar(x, y) ==
    \A k \in DOMAIN x.calls \cap DOMAIN y.calls : x.calls[k] = y.calls[k]

\* C31: fed the same port outcomes, agenerate makes the same port calls and
\* returns the same value as generate, for the Reranker and for the Combiner:
\* at most 3 attempts each, the same calls in the same order with the same
\* outcomes as far as both have got, neither going on after the point where the
\* other has returned, and at the end the same number of attempts and the
\* same list or the same empty list
C31_AwaitedEquivalent ==
    /\ awaited.async.attempts <= 3
    /\ awaited.sync.attempts <= 3
    /\ SameCallsSoFar(awaited.sync, awaited.async)
    /\ awaited.sync.done => Len(awaited.async.calls) <= Len(awaited.sync.calls)
    /\ awaited.async.done => Len(awaited.sync.calls) <= Len(awaited.async.calls)
    /\ (awaited.sync.done /\ awaited.async.done) =>
           /\ awaited.async.attempts = awaited.sync.attempts
           /\ awaited.async.calls = awaited.sync.calls
           /\ awaited.async.ret = awaited.sync.ret
           /\ awaited.async.raised = awaited.sync.raised

C31_Witness ==
    /\ awaited.component = "combiner"
    /\ awaited.sync.done
    /\ awaited.async.done
    /\ awaited.async.attempts = 3
    /\ Len(awaited.async.calls) = 5
    /\ awaited.async.result.kind = "ok"
    /\ awaited.async.ret = <<>>
    /\ awaited.sync.ret = <<>>

\* no Reranker or Combiner call goes beyond its third attempt
AttemptsBounded ==
    /\ \A i \in DOMAIN br : br[i].attempts <= 3
    /\ comb.attempts <= 3

\* C32 as stated: no call goes beyond 3 attempts and every run ends in done
\* with a Fusion Result or in an error
C32_Original ==
    /\ []AttemptsBounded
    /\ <>((pc = "done" /\ has_final) \/ pc = "error")

\* C32: no call goes beyond 3 attempts and every run ends: in done with a
\* Fusion Result, in an error, or, when the decomposition returned no intent,
\* after the decomposition without a Fusion Result; no run stays at the join
C32_Amended ==
    /\ []AttemptsBounded
    /\ <>(\/ pc = "done" /\ has_final
          \/ pc = "error"
          \/ pc = "halted" /\ decomposed_queries = <<>> /\ ~has_final)

C32_Witness ==
    /\ pc = "done"
    /\ has_final
    /\ Len(decomposed_queries) = 2
    /\ comb.attempts = 3
    /\ RerankerExhausted(1)

\* the outcome of the last port call a run made, NoResult if it made none
LastOutcome(run) ==
    IF run.calls = <<>> THEN NoResult ELSE run.calls[Len(run.calls)].out

\* a call that has returned a list returned the answer of its last port call,
\* and returned the empty list if that call raised
ReturnsLastAnswer(run) ==
    run.done =>
        /\ run.ret # <<>> => LastOutcome(run) = Returned(run.ret)
        /\ LastOutcome(run).kind # "ok" => run.ret = <<>>

\* C33: a Reranker or Combiner call never returns a stale list: what it
\* returns, when not empty, is the answer of the last port call it made; a
\* list of an earlier attempt that failed the test is kept in result but is
\* not returned once later attempts raise
C33_NoStaleResult ==
    /\ ReturnsLastAnswer(awaited.sync)
    /\ ReturnsLastAnswer(awaited.async)

C33_Witness ==
    /\ awaited.component = "combiner"
    /\ awaited.sync.done
    /\ awaited.sync.result.kind = "ok"
    /\ awaited.sync.result.tool_names # <<>>
    /\ LastOutcome(awaited.sync) = Raised
    /\ awaited.sync.ret = <<>>

\* a Combiner call given no intent and no shortlist
ZeroIntentsCall ==
    /\ awaited.component = "combiner"
    /\ list_of_intents = <<>>
    /\ list_of_list_of_tools = <<>>

\* C34: a Combiner call with no intent and no shortlist fails to compose its
\* prompt in every attempt, inside the try: it makes no port call, uses up
\* its 3 attempts and returns the empty list; it raises nothing
C34_ZeroIntentsCombiner ==
    ZeroIntentsCall =>
        /\ CombinerMessages(list_of_intents, list_of_list_of_tools).kind = "exc"
        /\ awaited.sync.calls = <<>>
        /\ awaited.sync.raised = NoException
        /\ awaited.sync.result = NoResult
        /\ awaited.sync.ret = <<>>
        /\ awaited.sync.attempts <= 3
        /\ awaited.sync.done <=> awaited.sync.attempts = 3

C34_Witness ==
    /\ ZeroIntentsCall
    /\ awaited.sync.done
    /\ awaited.sync.attempts = 3
    /\ awaited.sync.calls = <<>>
    /\ awaited.sync.ret = <<>>

\* C35: an exception of the expansion or of a retrieval in one branch ends the
\* whole run: the combine step does not run, the Combiner is not called,
\* there is no Fusion Result, the Intent Results of branches that had already
\* finished are not merged, and the failed branch contributes no shortlist,
\* not even an empty one
C35_BranchErrorAbortsRun ==
    error \in {"expander", "retrieval"} =>
        /\ pc = "error"
        /\ raised.kind = "exc"
        /\ ~ENABLED Next
        /\ combine_runs = 0
        /\ comb = IdleCombiner
        /\ list_of_intents = <<>>
        /\ list_of_list_of_tools = <<>>
        /\ ~has_final
        /\ final_top_k_tools = <<>>
        /\ decomposed_query_dicts = <<>>
        /\ br = <<>>
        /\ \E i \in DOMAIN reranker_returns : reranker_returns[i] = NoResult

C35_Witness ==
    /\ pc = "error"
    /\ error = "retrieval"
    /\ Len(decomposed_queries) = 2
    /\ reranker_returns[1].kind = "ok"
    /\ reranker_returns[1].tool_names # <<>>
    /\ reranker_returns[2] = NoResult
    /\ decomposed_query_dicts = <<>>

====
